---- MODULE Spec2Model ----
(***************************************************************************)
(* A model of the crawl orchestration engine of weibo_bulk_api.py:         *)
(* AccountClient.get_json (per-account lock and rate limit), the           *)
(* verification gate handle_not_found_gate with its per-surface locks, and *)
(* the round scheduler of main_async with run_one_keyword and              *)
(* persist_result.                                                          *)
(*                                                                         *)
(* The specifications share the variables:                                 *)
(*   SpecClient     concurrent callers of get_json, with a clock;          *)
(*   SpecGate       workers entering handle_not_found_gate;                *)
(*   Spec           the scheduler: rounds, workers, run_one_keyword;       *)
(*   SpecStub       the scheduler against a fetcher that always succeeds;  *)
(*   SpecFetch      one fetch_endpoint_items call;                         *)
(*   SpecProc       one process_keyword call;                              *)
(*   SpecInstances  two process instances on one state database;           *)
(*   SpecLoad       one load_keywords call;                                *)
(*   SpecLive       get_json callers and gate entrants under fairness.     *)
(* A specification leaves the variables of the other parts unchanged.      *)
(***************************************************************************)
EXTENDS Integers, Sequences, FiniteSets, TLC

VARIABLES
    args,           \* argparse.Namespace: the run's configuration
    accounts,       \* load_accounts: account index -> Account
    platform,       \* sys.platform
    \* ---- AccountClient (one per account) ----
    cl_lock,        \* AccountClient._lock: [holder, waiters]
    next_ts,        \* AccountClient._next_ts - time.time(), floored at 0
    cpc,            \* worker -> its position inside get_json
    ctarget,        \* worker -> the client it called get_json on
    wake,           \* worker -> what is left of its asyncio.sleep
    since,          \* history: account -> ticks since its last client.get
    last_gap,       \* history: account -> ticks between its last two client.get
    raw_log,        \* number of records in the raw log file
    \* ---- handle_not_found_gate ----
    gate_locks,     \* main_async.gate_locks: key -> asyncio.Lock
    gst,            \* worker -> its position in the gate
    gacc,           \* worker -> the account it entered the gate with (or None)
    glock,          \* worker -> the key of the gate_lock it was handed
    gcycle,         \* worker -> refreshes it has issued in this entry (cycle)
    gelapsed,       \* worker -> time.time() - begin, in gate ticks
    gqueued,        \* history: worker -> this entry had to queue for the lock
    grefreshed,     \* history: worker -> how its last refresh ended
    gobs,           \* history: worker -> what its last poll observed
    \* ---- main_async: the checkpoint store and the round scheduler ----
    task_state,     \* table task_state: keyword -> status ("none" = no row)
    task_error,     \* table task_state: keyword -> the row's error column
    result_store,   \* table result_store: keyword -> payload (NoPayload = no row)
    out_log,        \* the output file: the lines appended, in order
    spc,            \* position of main_async
    before_done,    \* before_done_count
    queue,          \* what is left of todo (serial loop) or of the asyncio.Queue
    round,          \* history of the round under way (see NoRound)
    wpc,            \* worker -> its position in run_one_keyword
    wkw,            \* worker -> the keyword it was dispatched
    wres,           \* worker -> run_one_keyword's local result
    wfly,           \* worker -> the account its request in flight goes through
    wcalls,         \* history: worker -> process_keyword calls in this dispatch
    wgates,         \* history: worker -> gate entries in this dispatch
    wfirst,         \* history: worker -> found of the first Outcome of this dispatch
    \* ---- the parts followed on their own ----
    fetch,          \* one fetch_endpoint_items call: what the API serves, what it returns
    proc,           \* one process_keyword call: its locals and its Outcome
    inst,           \* the process instances on one store file
    load            \* one load_keywords call: the cells read and the list returned

clientVars == <<cl_lock, next_ts, cpc, ctarget, wake, since, last_gap, raw_log>>
gateVars == <<gate_locks, gst, gacc, glock, gcycle, gelapsed, gqueued, grefreshed, gobs>>
cfgVars == <<args, accounts, platform>>
storeVars == <<task_state, task_error, result_store, out_log>>
schedVars == <<spc, before_done, queue, round>>
workerVars == <<wpc, wkw, wres, wfly, wcalls, wgates, wfirst>>
runVars == <<storeVars, schedVars, workerVars>>
partVars == <<fetch, proc, inst, load>>
vars == <<cfgVars, clientVars, gateVars, runVars, partVars>>

----------------------------------------------------------------------------
(* Bounds of the model *)

NumAccounts == 2        \* len(accounts)
IntervalAtFloor == 4    \* client ticks in 1/0.01 seconds (the longest interval)
MaxLog == 3             \* records the raw log can hold
MaxCycles == 2          \* the gate's cycle counter stops counting here
MaxCallTicks == 1       \* gate ticks a state or location check can take
NumKeywords == 4        \* keywords in the CSV
MaxRepeatLines == 1     \* lines the output file can hold beyond one per keyword
MaxPages == 2           \* the largest max_pages of an endpoint
MaxRows == 3            \* rows of the keyword CSV

(* Program constants *)

MinQps == 1             \* max(0.01, qps): rates are in 1/100 request per second

Max(a, b) == IF a >= b THEN a ELSE b
Min(a, b) == IF a <= b THEN a ELSE b

AccountIds == 1..NumAccounts
\* worker_count = max(1, int(args.concurrency)), at most len(accounts)
Workers == 1..Min(Max(1, args.concurrency), NumAccounts)
None == 0 - 0
Never == 0 - 1

----------------------------------------------------------------------------
(* Configuration: parse_args and load_accounts *)

\* The refresh fields of an Account; "" and 0 mean "not set for the account".
NoOverride ==
    [refresh_method |-> "", refresh_url_keyword |-> "", refresh_window_keyword |-> "",
     refresh_window_index |-> 0, refresh_window_tag |-> ""]

Account(q, r) ==
    [qps |-> q,
     refresh_method |-> r.refresh_method,
     refresh_url_keyword |-> r.refresh_url_keyword,
     refresh_window_keyword |-> r.refresh_window_keyword,
     refresh_window_index |-> r.refresh_window_index,
     refresh_window_tag |-> r.refresh_window_tag]

\* The defaults of build_parser. Gate times are in gate ticks of 0.5 s.
DefaultArgs ==
    [raw_log |-> FALSE,
     max_retries |-> 3,
     refresh_on_not_found |-> FALSE,
     retry_false_after_verify |-> TRUE,
     refresh_method |-> "auto",
     refresh_url_keyword |-> "weibo",
     refresh_window_keyword |-> "Chrome",
     refresh_window_index |-> 0,
     refresh_window_tag |-> "",
     verify_poll_interval |-> 4,
     verify_cycle_timeout |-> 90,
     concurrency |-> 1,
     limit |-> 0,
     strict_account_isolation |-> FALSE,
     fallback_to_other_accounts |-> TRUE,
     allow_empty_contrib |-> FALSE]

----------------------------------------------------------------------------
(* asyncio.Lock: FIFO. acquire() takes a free lock with no waiters at once *)
(* and queues otherwise; release() frees it and the head waiter takes it   *)
(* when it next runs.                                                      *)

FreeLock == [holder |-> None, waiters |-> <<>>]
LockFree(lk) == lk.holder = None /\ lk.waiters = <<>>
LockTake(lk, w) == [lk EXCEPT !.holder = w]
LockQueue(lk, w) == [lk EXCEPT !.waiters = Append(@, w)]
LockHeadIs(lk, w) == lk.holder = None /\ lk.waiters # <<>> /\ Head(lk.waiters) = w
LockTakeHead(lk, w) == [holder |-> w, waiters |-> Tail(lk.waiters)]
LockKept(lk) == lk
LockRelease(lk) == [lk EXCEPT !.holder = None]

----------------------------------------------------------------------------
(* AccountClient.get_json. Time is kept relative to time.time(): next_ts   *)
(* is what is left until _next_ts, wake what is left of a sleep, and Tick  *)
(* lets one client tick pass.                                              *)

\* interval = 1.0 / max(0.01, float(self.account.qps))
Interval(a) == IntervalAtFloor \div Max(MinQps, accounts[a].qps)

\* self._next_ts = time.time() + interval
NextTsNoInterval(a) == 0
NextTs(a) == Interval(a)

\* async with self._lock: may the caller enter at once
ClientLockFreeAlways(a) == TRUE
ClientLockFree(a) == LockFree(cl_lock[a])

\* Reschedule and hand client.get to a thread.
IssueRequest(w, a) ==
    /\ next_ts' = [next_ts EXCEPT ![a] = NextTs(a)]
    /\ last_gap' = [last_gap EXCEPT ![a] = since[a]]
    /\ since' = [since EXCEPT ![a] = 0]
    /\ cpc' = [cpc EXCEPT ![w] = "flight"]

\* The locked section up to its first suspension: sleep when _next_ts is in
\* the future, otherwise issue.
LockedSection(w, a) ==
    IF next_ts[a] > 0
    THEN /\ cpc' = [cpc EXCEPT ![w] = "sleep"]
         /\ wake' = [wake EXCEPT ![w] = next_ts[a]]
         /\ UNCHANGED <<next_ts, since, last_gap>>
    ELSE /\ IssueRequest(w, a)
         /\ UNCHANGED wake

\* A caller enters get_json on client a.
GetJsonCall(w, a) ==
    /\ cpc[w] = "none"
    /\ raw_log < MaxLog
    /\ ctarget' = [ctarget EXCEPT ![w] = a]
    /\ IF ClientLockFree(a)
       THEN /\ cl_lock' = [cl_lock EXCEPT ![a] = LockTake(@, w)]
            /\ LockedSection(w, a)
       ELSE /\ cl_lock' = [cl_lock EXCEPT ![a] = LockQueue(@, w)]
            /\ cpc' = [cpc EXCEPT ![w] = "wait_lock"]
            /\ UNCHANGED <<next_ts, since, last_gap, wake>>
    /\ UNCHANGED <<raw_log, cfgVars>>

\* A queued caller is handed the released lock.
GetJsonAcquire(w) ==
    /\ cpc[w] = "wait_lock"
    /\ LockHeadIs(cl_lock[ctarget[w]], w)
    /\ cl_lock' = [cl_lock EXCEPT ![ctarget[w]] = LockTakeHead(@, w)]
    /\ LockedSection(w, ctarget[w])
    /\ UNCHANGED <<ctarget, raw_log, cfgVars>>

\* asyncio.sleep(self._next_ts - now) ends, no earlier than asked.
GetJsonWake(w) ==
    /\ cpc[w] = "sleep"
    /\ wake[w] = 0
    /\ IssueRequest(w, ctarget[w])
    /\ UNCHANGED <<cl_lock, ctarget, wake, raw_log, cfgVars>>

\* How a request ends. client.get, raise_for_status or resp.json() raising
\* leaves before _append_raw_log; the others log first.
Responses == {"ok", "risk_blocked", "api_error", "http_error", "transport_error"}
LoggedResponses == {"ok", "risk_blocked", "api_error"}

GetJsonRespond(w, r) ==
    /\ cpc[w] = "flight"
    /\ raw_log' = IF args.raw_log /\ r \in LoggedResponses THEN raw_log + 1 ELSE raw_log
    /\ cl_lock' = [cl_lock EXCEPT ![ctarget[w]] = LockRelease(@)]
    /\ cpc' = [cpc EXCEPT ![w] = "none"]
    /\ ctarget' = [ctarget EXCEPT ![w] = None]
    /\ UNCHANGED <<next_ts, wake, since, last_gap, cfgVars>>

\* One client tick passes.
Tick ==
    /\ next_ts' = [a \in AccountIds |-> Max(0, next_ts[a] - 1)]
    /\ wake' = [w \in Workers |-> Max(0, wake[w] - 1)]
    /\ since' = [a \in AccountIds |->
                    IF since[a] = Never THEN Never ELSE Min(IntervalAtFloor, since[a] + 1)]
    /\ UNCHANGED <<cl_lock, cpc, ctarget, last_gap, raw_log, cfgVars>>

----------------------------------------------------------------------------
(* The verification gate: resolve_account_refresh_settings, the gate_locks  *)
(* of main_async and handle_not_found_gate. Gate time is in ticks of 0.5 s. *)

MinPollInterval == 1    \* max(0.5, verify_poll_interval)
MinCycleTimeout == 10   \* max(5.0, verify_cycle_timeout)

\* Account None stands for "no account object" (acc_obj is None).
ResolveAccountRefreshSettings(acc) ==
    LET method == IF args.refresh_method = "" THEN "auto" ELSE args.refresh_method
        url_keyword == IF args.refresh_url_keyword = "" THEN "weibo" ELSE args.refresh_url_keyword
        window_keyword ==
            IF args.refresh_window_keyword = "" THEN "Chrome" ELSE args.refresh_window_keyword
        window_index == args.refresh_window_index
        window_tag == args.refresh_window_tag
    IN  IF acc = None
        THEN <<method, url_keyword, window_keyword, window_index, window_tag>>
        ELSE <<IF accounts[acc].refresh_method # ""
                   THEN accounts[acc].refresh_method ELSE method,
               IF accounts[acc].refresh_url_keyword # ""
                   THEN accounts[acc].refresh_url_keyword ELSE url_keyword,
               IF accounts[acc].refresh_window_keyword # ""
                   THEN accounts[acc].refresh_window_keyword ELSE window_keyword,
               IF accounts[acc].refresh_window_index > 0
                   THEN accounts[acc].refresh_window_index ELSE window_index,
               IF accounts[acc].refresh_window_tag # ""
                   THEN accounts[acc].refresh_window_tag ELSE window_tag>>

\* gate_key_for_account: f"{method}|{url_kw}|{win_kw}|{win_idx}|{win_tag}"
GateKeyByName(acc) == IF acc = None THEN "global" ELSE ToString(acc)
GateKeyForAccount(acc) ==
    IF acc = None
    THEN "global"
    ELSE LET r == ResolveAccountRefreshSettings(acc)
         IN  r[1] \o "|" \o r[2] \o "|" \o r[3] \o "|" \o ToString(r[4]) \o "|" \o r[5]

\* gate_lock_for_account: the dict with the key's lock created when missing
GateLocksWith(key) ==
    IF key \in DOMAIN gate_locks
    THEN gate_locks
    ELSE [k \in DOMAIN gate_locks \cup {key} |->
             IF k = key THEN FreeLock ELSE gate_locks[k]]

SupportsVerifyPoll(acc) ==
    LET method == ResolveAccountRefreshSettings(acc)[1]
    IN  method = "mac" \/ (method = "auto" /\ platform = "darwin")

\* refresh_local_chrome_tab: the ok it can return. The mac refresh needs
\* darwin, the windows refresh win32, an unknown method fails.
RefreshResults(acc) ==
    LET method == ResolveAccountRefreshSettings(acc)[1]
    IN  IF \/ method \in {"auto", "mac"} /\ platform = "darwin"
           \/ method \in {"auto", "windows"} /\ platform = "win32"
        THEN BOOLEAN
        ELSE {FALSE}

PollInterval == Max(MinPollInterval, args.verify_poll_interval)
CycleTimeoutNoFloor == args.verify_cycle_timeout
CycleTimeout == Max(MinCycleTimeout, args.verify_cycle_timeout)

\* get_chrome_verify_state_mac: (state_ok, state)
StateAnswers ==
    {[ok |-> TRUE, text |-> "OK"], [ok |-> TRUE, text |-> "PENDING"],
     [ok |-> TRUE, text |-> "JSERR:e"], [ok |-> TRUE, text |-> "NO_TAB"],
     [ok |-> FALSE, text |-> "Apple events JavaScript"],
     [ok |-> FALSE, text |-> "osascript failed"]}
JsDisabled(text) == text \in {"Apple events JavaScript"}

\* get_chrome_tab_url_mac: (url_ok, tab_url)
Locations == {"https://m.weibo.cn/captcha/show", "https://m.weibo.cn/search"}
UrlAnswers ==
    {[ok |-> TRUE, text |-> u] : u \in Locations \cup {"NO_TAB"}}
        \cup {[ok |-> FALSE, text |-> "osascript failed"]}
NoUrl == [ok |-> FALSE, text |-> ""]
ContainsCaptchaShow(text) == text \in {"https://m.weibo.cn/captcha/show"}

NoObs == [via |-> "none", text |-> "", at |-> 0]

\* handle_not_found_gate, entered by w with account acc: async with gate_lock
EnterGate(w, acc) ==
    LET key == GateKeyForAccount(acc)
        locks == GateLocksWith(key)
    IN  /\ gacc' = [gacc EXCEPT ![w] = acc]
        /\ glock' = [glock EXCEPT ![w] = key]
        /\ IF LockFree(locks[key])
           THEN /\ gate_locks' = [locks EXCEPT ![key] = LockTake(@, w)]
                /\ gst' = [gst EXCEPT ![w] = "refreshing"]
                /\ gqueued' = [gqueued EXCEPT ![w] = FALSE]
           ELSE /\ gate_locks' = [locks EXCEPT ![key] = LockQueue(@, w)]
                /\ gst' = [gst EXCEPT ![w] = "wait"]
                /\ gqueued' = [gqueued EXCEPT ![w] = TRUE]
        /\ UNCHANGED <<gcycle, gelapsed, gobs, grefreshed>>

\* A queued worker is handed the released gate lock.
GateAcquire(w) ==
    /\ gst[w] = "wait"
    /\ LockHeadIs(gate_locks[glock[w]], w)
    /\ gate_locks' = [gate_locks EXCEPT ![glock[w]] = LockTakeHead(@, w)]
    /\ gst' = [gst EXCEPT ![w] = "refreshing"]
    /\ UNCHANGED <<gacc, glock, gcycle, gelapsed, gqueued, gobs, grefreshed, cfgVars>>

\* Where the gate goes after a refresh: 'if not ok: ... continue' with state
\* polling, the pause and return without it.
AfterRefreshAnyAnswer(acc, ok) ==
    IF ~SupportsVerifyPoll(acc) THEN "cleared" ELSE "polling"
AfterRefresh(acc, ok) ==
    IF ~SupportsVerifyPoll(acc) THEN "cleared"
    ELSE IF ok THEN "polling" ELSE "refreshing"

\* REFRESHING: refresh_local_chrome_tab answers ok. Without state polling the
\* gate then pauses refresh_wait and returns; with it a failed refresh sleeps
\* poll_interval and refreshes again, a successful one enters POLLING.
GateRefresh(w, ok) ==
    /\ gst[w] = "refreshing"
    /\ ok \in RefreshResults(gacc[w])
    /\ gcycle' = [gcycle EXCEPT ![w] = Min(MaxCycles, @ + 1)]
    /\ grefreshed' = [grefreshed EXCEPT ![w] = IF ok THEN "ok" ELSE "failed"]
    /\ gobs' = [gobs EXCEPT ![w] = NoObs]
    /\ gelapsed' = [gelapsed EXCEPT ![w] = 0]
    /\ gst' = [gst EXCEPT ![w] = AfterRefresh(gacc[w], ok)]
    /\ UNCHANGED <<gate_locks, gacc, glock, gqueued, cfgVars>>

\* The end of one poll that did not clear: break on the cycle timeout,
\* otherwise sleep poll_interval and poll again.
TimeoutOrSleep(w, at) ==
    IF at >= CycleTimeout
    THEN /\ gst' = [gst EXCEPT ![w] = "refreshing"]
         /\ gelapsed' = [gelapsed EXCEPT ![w] = 0]
    ELSE /\ gst' = [gst EXCEPT ![w] = "polling"]
         /\ gelapsed' = [gelapsed EXCEPT ![w] = Min(CycleTimeout, at + PollInterval)]

GateCleared(w) ==
    /\ gst' = [gst EXCEPT ![w] = "cleared"]
    /\ gelapsed' = [gelapsed EXCEPT ![w] = 0]

GateAbortCycle(w) ==
    /\ gst' = [gst EXCEPT ![w] = "refreshing"]
    /\ gelapsed' = [gelapsed EXCEPT ![w] = 0]

\* URL fallback: the state check failed because JavaScript from Apple Events
\* is off and the account names no window tag; the location is asked then.
UrlFallbackAnyTag(acc, st) == ~st.ok /\ JsDisabled(st.text)
UrlFallback(acc, st) ==
    ~st.ok /\ JsDisabled(st.text) /\ ResolveAccountRefreshSettings(acc)[5] = ""
UrlAnswersFor(acc, st) == IF UrlFallback(acc, st) THEN UrlAnswers ELSE {NoUrl}

\* POLLING: one turn of the inner loop. st is the state check's answer, url
\* the location check's (asked only in URL fallback), d the ticks the calls took.
GatePoll(w, st, url, d) ==
    LET at == Min(CycleTimeout, gelapsed[w] + d)
        fallback == UrlFallback(gacc[w], st)
    IN  /\ gst[w] = "polling"
        /\ url \in UrlAnswersFor(gacc[w], st)
        /\ gobs' = [gobs EXCEPT ![w] =
                       IF fallback THEN [via |-> "url", text |-> url.text, at |-> at]
                       ELSE [via |-> "state", text |-> st.text, at |-> at]]
        /\ IF ~st.ok
           THEN IF fallback /\ url.ok
                THEN IF ~ContainsCaptchaShow(url.text)
                     THEN GateCleared(w)
                     ELSE TimeoutOrSleep(w, at)
                ELSE GateAbortCycle(w)
           ELSE IF st.text = "OK"
                THEN GateCleared(w)
                ELSE TimeoutOrSleep(w, at)
        /\ UNCHANGED <<gate_locks, gacc, glock, gcycle, gqueued, grefreshed, cfgVars>>

\* The gate returns: the async with block releases gate_lock.
GateReleaseAll(w) ==
    /\ gate_locks' = [gate_locks EXCEPT ![glock[w]] = FreeLock]
    /\ gst' = [x \in Workers |->
                  IF x = w \/ (gst[x] = "wait" /\ glock[x] = glock[w]) THEN "out" ELSE gst[x]]
GateRelease(w) ==
    /\ gate_locks' = [gate_locks EXCEPT ![glock[w]] = LockRelease(@)]
    /\ gst' = [gst EXCEPT ![w] = "out"]

\* CLEARED: asyncio.sleep(refresh_wait) ends and the gate returns.
GateReturn(w) ==
    /\ gst[w] = "cleared"
    /\ GateRelease(w)
    /\ gcycle' = [gcycle EXCEPT ![w] = 0]
    /\ grefreshed' = [grefreshed EXCEPT ![w] = "none"]
    /\ gobs' = [gobs EXCEPT ![w] = NoObs]
    /\ gacc' = [gacc EXCEPT ![w] = None]
    /\ glock' = [glock EXCEPT ![w] = ""]
    /\ gqueued' = [gqueued EXCEPT ![w] = FALSE]
    /\ UNCHANGED <<gelapsed, cfgVars>>

\* The account a failed Outcome names: "" when process_keyword made no
\* attempt, otherwise the name of an account it tried.
OutcomeAccounts == IF args.max_retries <= 0 THEN {None} ELSE AccountIds

\* run_one_keyword taking a found=false Outcome of account acc to the gate.
RunOneKeywordNotFound(w, acc) ==
    /\ gst[w] = "out"
    /\ acc \in OutcomeAccounts
    /\ EnterGate(w, acc)
    /\ UNCHANGED cfgVars

----------------------------------------------------------------------------
(* main_async: the checkpoint store, run_one_keyword and the rounds.       *)
(* process_keyword is followed as the requests it issues and the Outcome   *)
(* it returns. In serial mode the main task is worker 1.                   *)

\* load_keywords: the CSV holds NumKeywords distinct keywords, numbered in
\* file order; --limit keeps the first ones.
Keywords == IF args.limit > 0 THEN 1..Min(args.limit, NumKeywords) ELSE 1..NumKeywords
WorkerCount == Cardinality(Workers)

\* The store can hold rows of keywords that are not in this run's list
\* (another CSV, another shard, a lifted --limit).
StoreKeywords == 1..(NumKeywords + 1)
ForeignKeywords == StoreKeywords \ Keywords

\* An Outcome as run_one_keyword and persist_result use it: data names the
\* process_keyword call whose fetches filled it, error is its "_error" key.
\* Its _account is used at once, on return; _ok is not looked at.
Outcome(k, f, d, e) == [keyword |-> k, found |-> f, data |-> d, error |-> e]
NoOutcome == Outcome(None, FALSE, 0, "")

\* A page as the API serves it: data_ok says that "data" is an object,
\* total is cardlistInfo.total (None when it is no int), cards lists the
\* cards by the uid of their user (None for a card without one).
Page(ok, t, c) == [data_ok |-> ok, total |-> t, cards |-> c]
Parsers == {"users_basic", "contributors", "raw_cards"}

\* parse_card_group_users: the users of the cards, the first of each uid
RECURSIVE ParseCardGroupUsers(_, _)
ParseCardGroupUsers(cards, seen) ==
    IF cards = <<>> THEN <<>>
    ELSE IF Head(cards) = None \/ Head(cards) \in seen
         THEN ParseCardGroupUsers(Tail(cards), seen)
         ELSE <<Head(cards)>> \o ParseCardGroupUsers(Tail(cards), seen \cup {Head(cards)})

\* map_user_basic, map_user_contributor, and a raw card kept as it is
Mapper(parser, uid, rank) ==
    IF parser = "contributors" THEN [uid |-> uid, rank |-> rank] ELSE [uid |-> uid]
RawCard(uid) == [card |-> uid]

\* fetch_endpoint_items: pages 1..max_pages are requested in turn (a page
\* beyond the last has no cards). A page whose data is no object ends the
\* loop; otherwise its total is taken; raw_cards appends every card, a user
\* parser appends the users whose uid was not seen; a page that adds nothing
\* ends the loop. fetched counts the pages requested.
TakeTotal(total, page_total) == IF page_total # None THEN page_total ELSE total

RECURSIVE FetchPages(_, _, _, _, _, _)
FetchPages(pages, max_pages, parser, p, all_items, total) ==
    LET page == IF p <= Len(pages) THEN pages[p] ELSE Page(TRUE, None, <<>>)
        new_total == TakeTotal(total, page.total)
        seen_uids == {all_items[i].uid : i \in 1..Len(all_items)}
        users == SelectSeq(ParseCardGroupUsers(page.cards, {}), LAMBDA u : u \notin seen_uids)
        got == IF parser = "raw_cards"
               THEN [i \in 1..Len(page.cards) |-> RawCard(page.cards[i])]
               ELSE [i \in 1..Len(users) |-> Mapper(parser, users[i], Len(all_items) + i)]
    IN  IF ~page.data_ok
        THEN [items |-> all_items, total |-> total, fetched |-> p]
        ELSE IF got = <<>> \/ p >= max_pages
             THEN [items |-> all_items \o got, total |-> new_total, fetched |-> p]
             ELSE FetchPages(pages, max_pages, parser, p + 1, all_items \o got, new_total)
FetchEndpointItems(pages, max_pages, parser) ==
    FetchPages(pages, Max(1, max_pages), parser, 1, <<>>, None)

\* process_keyword with one endpoint whose requests all return: found is
\* bool(items); an empty contributors list raises "contributors empty"
\* unless allow_empty_contrib, and ends as the error Outcome.
EndpointResult(items, contrib_required) ==
    IF items # <<>> THEN [found |-> TRUE, error |-> ""]
    ELSE IF contrib_required THEN [found |-> FALSE, error |-> "error"]
    ELSE [found |-> FALSE, error |-> ""]

\* What process_keyword can return: found as computed from the endpoints'
\* items with _error "", or, when every attempt raised, found=false with
\* the last error ("unknown" when max_retries allowed no attempt).
ProcessResults ==
    {[found |-> TRUE, error |-> ""], [found |-> FALSE, error |-> ""],
     [found |-> FALSE, error |-> "error"]}

\* public_item: the Outcome without its "_" keys
PublicItemWithError(item) ==
    [keyword |-> item.keyword, found |-> item.found, error |-> item.error]
PublicItem(item) == [keyword |-> item.keyword, found |-> item.found]
NoPayload == PublicItem(NoOutcome)

\* get_done_keywords
DoneKeywordsAnyStatus == {k \in StoreKeywords : task_state[k] # "none"}
DoneKeywords == {k \in StoreKeywords : task_state[k] = "success"}

\* todo = [k for k in keywords if k not in done]
TodoWithDone ==
    SelectSeq([i \in 1..NumKeywords |-> i], LAMBDA k : k \in Keywords)
Todo ==
    SelectSeq([i \in 1..NumKeywords |-> i], LAMBDA k : k \in Keywords /\ k \notin DoneKeywords)

\* History of a round: its todo, the length of the output file at its
\* start, keyword -> how often it was taken from the queue, keyword -> how
\* often persist_result was called for it and how often that call returned,
\* worker -> how many keywords it took. Forgotten when the round ends.
NoRound ==
    [todo |-> <<>>, log0 |-> 0,
     taken |-> [k \in StoreKeywords |-> 0],
     calls |-> [k \in StoreKeywords |-> 0],
     returned |-> [k \in StoreKeywords |-> 0],
     disp |-> [w \in Workers |-> 0]]

\* The lines of the output file that belong to keywords of the list
ListLines == SelectSeq(out_log, LAMBDA line : line.keyword \in Keywords)

\* while True: ... if not todo: break; otherwise the round's dispatch starts.
\* (round_idx only numbers the log messages.) A round is followed only when
\* the output file can hold a line for each of its keywords.
\* In the pool, 'await queue.join()' lets the created workers run in
\* creation order, and each takes its first keyword before it suspends at
\* its first request (max_retries >= 1): the first keywords of the queue go
\* to workers 1, 2, ... before anything else happens.
PoolHeadStartOne ==
    IF WorkerCount <= 1 \/ args.max_retries < 1 THEN 0 ELSE Min(Len(Todo), 1)
PoolHeadStart ==
    IF WorkerCount <= 1 \/ args.max_retries < 1 THEN 0 ELSE Min(Len(Todo), WorkerCount)

RoundStart ==
    LET first == PoolHeadStart
    IN  /\ spc = "round_start"
        /\ IF Todo = <<>>
           THEN /\ spc' = "done"
                /\ UNCHANGED <<before_done, queue, round, workerVars>>
           ELSE /\ Len(ListLines) + Len(Todo) <= Cardinality(Keywords) + MaxRepeatLines
                /\ before_done' = Cardinality(DoneKeywords)
                /\ queue' = SubSeq(Todo, first + 1, Len(Todo))
                /\ spc' = IF WorkerCount <= 1 THEN "serial" ELSE "parallel"
                /\ wpc' = [w \in Workers |-> IF w <= first THEN "process" ELSE wpc[w]]
                /\ wkw' = [w \in Workers |-> IF w <= first THEN Todo[w] ELSE wkw[w]]
                /\ round' = [NoRound EXCEPT
                                 !.todo = Todo, !.log0 = Len(out_log),
                                 !.taken = [k \in StoreKeywords |->
                                               IF \E i \in 1..first : Todo[i] = k THEN 1 ELSE 0],
                                 !.disp = [w \in Workers |-> IF w <= first THEN 1 ELSE 0]]
                /\ UNCHANGED <<wres, wfly, wcalls, wgates, wfirst>>
        /\ UNCHANGED <<storeVars, gateVars, cfgVars>>

\* run_one_keyword(kw) starts: the first process_keyword call
StartKeyword(w, kw) ==
    /\ wpc' = [wpc EXCEPT ![w] = "process"]
    /\ wkw' = [wkw EXCEPT ![w] = kw]
    /\ wres' = [wres EXCEPT ![w] = NoOutcome]
    /\ wcalls' = [wcalls EXCEPT ![w] = 0]
    /\ wgates' = [wgates EXCEPT ![w] = 0]
    /\ wfirst' = [wfirst EXCEPT ![w] = "none"]
    /\ round' = [round EXCEPT !.taken[kw] = @ + 1, !.disp[w] = @ + 1]
    /\ UNCHANGED wfly

\* for kw in todo: await run_one_keyword(kw)
SerialNext ==
    /\ spc = "serial"
    /\ wpc[1] = "idle"
    /\ queue # <<>>
    /\ StartKeyword(1, Head(queue))
    /\ queue' = Tail(queue)
    /\ UNCHANGED <<spc, before_done, storeVars, gateVars, cfgVars>>

\* worker: kw = queue.get_nowait(); await run_one_keyword(kw)
WorkerGetPeek(w) ==
    /\ spc = "parallel"
    /\ wpc[w] = "idle"
    /\ queue # <<>>
    /\ StartKeyword(w, Head(queue))
    /\ UNCHANGED <<spc, before_done, queue, storeVars, gateVars, cfgVars>>
WorkerGet(w) ==
    /\ spc = "parallel"
    /\ wpc[w] = "idle"
    /\ queue # <<>>
    /\ StartKeyword(w, Head(queue))
    /\ queue' = Tail(queue)
    /\ UNCHANGED <<spc, before_done, storeVars, gateVars, cfgVars>>

\* process_keyword: cli.get_json issues a request through account a
FetchIssue(w, a) ==
    /\ wpc[w] = "process"
    /\ wfly[w] = None
    /\ args.max_retries >= 1
    /\ wfly' = [wfly EXCEPT ![w] = a]
    /\ UNCHANGED <<wpc, wkw, wres, wcalls, wgates, wfirst,
                   storeVars, schedVars, gateVars, cfgVars>>

\* the request returns or raises, and process_keyword goes on to another
\* page, endpoint, variant, account or attempt
FetchReturn(w) ==
    /\ wpc[w] = "process"
    /\ wfly[w] # None
    /\ wfly' = [wfly EXCEPT ![w] = None]
    /\ UNCHANGED <<wpc, wkw, wres, wcalls, wgates, wfirst,
                   storeVars, schedVars, gateVars, cfgVars>>

\* result = retry_result
KeepFirstResult(result, retry_result) == result
FinalResult(result, retry_result) == retry_result

\* process_keyword returns its Outcome to run_one_keyword when its last
\* request has returned or raised; the Outcome names that request's account
\* (no account when max_retries allowed no request). The first Outcome with
\* found=false goes to the gate when refresh_on_not_found is set; the
\* retry's Outcome replaces result.
ProcessReturn(w, found, error) ==
    LET o == Outcome(wkw[w], found, wcalls[w] + 1, error)
    IN  /\ wpc[w] = "process"
        /\ IF args.max_retries >= 1 THEN wfly[w] # None ELSE error # ""
        /\ wfly' = [wfly EXCEPT ![w] = None]
        /\ wcalls' = [wcalls EXCEPT ![w] = @ + 1]
        /\ IF wcalls[w] = 0
           THEN /\ wres' = [wres EXCEPT ![w] = o]
                /\ wfirst' = [wfirst EXCEPT ![w] = IF found THEN "found" ELSE "notfound"]
                /\ IF args.refresh_on_not_found /\ ~found
                   THEN /\ EnterGate(w, wfly[w])
                        /\ wgates' = [wgates EXCEPT ![w] = @ + 1]
                        /\ wpc' = [wpc EXCEPT ![w] = "gate"]
                   ELSE /\ wpc' = [wpc EXCEPT ![w] = "persist"]
                        /\ UNCHANGED <<wgates, gateVars>>
           ELSE /\ wres' = [wres EXCEPT ![w] = FinalResult(@, o)]
                /\ wpc' = [wpc EXCEPT ![w] = "persist"]
                /\ UNCHANGED <<wfirst, wgates, gateVars>>
        /\ UNCHANGED <<wkw, storeVars, schedVars, cfgVars>>

\* await handle_not_found_gate(...) has returned
GateDoneNoAwait(w) == TRUE
GateDone(w) == gst[w] = "out"

\* After the gate: retry once when retry_false_after_verify is set.
AfterGate(w) ==
    /\ wpc[w] = "gate"
    /\ GateDone(w)
    /\ wpc' = [wpc EXCEPT ![w] = IF args.retry_false_after_verify THEN "process" ELSE "persist"]
    /\ UNCHANGED <<wkw, wres, wfly, wcalls, wgates, wfirst,
                   storeVars, schedVars, gateVars, cfgVars>>

\* How persist_result can end: "none" it returns; "db" a statement raises
\* before anything is written; "log" the rows are committed and the append
\* to the output file raises.
PersistFailures == {"none", "db", "log"}

\* async with persist_lock: persist_result(conn, output_path, result). The
\* block has no await: it runs from acquire to release in one step. An
\* exception leaves run_one_keyword; the parallel worker catches it, the
\* serial loop does not and main_async ends with it.
Persist(w, fail) ==
    LET item == wres[w]
        kw == item.keyword
        status == IF item.found THEN "success" ELSE "failed"
    IN  /\ wpc[w] = "persist"
        /\ IF fail = "db"
           THEN UNCHANGED <<task_state, task_error, result_store>>
           ELSE /\ result_store' = [result_store EXCEPT ![kw] = PublicItem(item)]
                /\ task_state' = [task_state EXCEPT ![kw] = status]
                /\ task_error' = [task_error EXCEPT ![kw] = item.error]
        /\ out_log' = IF fail = "none" THEN Append(out_log, PublicItem(item)) ELSE out_log
        /\ wpc' = [wpc EXCEPT ![w] = "idle"]
        /\ wkw' = [wkw EXCEPT ![w] = None]
        /\ wres' = [wres EXCEPT ![w] = NoOutcome]
        /\ wcalls' = [wcalls EXCEPT ![w] = 0]
        /\ wgates' = [wgates EXCEPT ![w] = 0]
        /\ wfirst' = [wfirst EXCEPT ![w] = "none"]
        /\ spc' = IF fail # "none" /\ spc = "serial" THEN "aborted" ELSE spc
        /\ round' = [round EXCEPT !.calls[kw] = @ + 1,
                                  !.returned[kw] = IF fail = "none" THEN @ + 1 ELSE @]
        /\ UNCHANGED <<before_done, queue, wfly, gateVars, cfgVars>>

\* The round ends: the serial loop is through, or queue.join() returns and
\* the workers are gathered. No progress with keywords left sleeps 1 s.
RoundEnd ==
    LET after_done_count == Cardinality(DoneKeywords)
        progressed == after_done_count - before_done
        remaining == Cardinality(Keywords) - after_done_count
    IN  /\ spc \in {"serial", "parallel"}
        /\ queue = <<>>
        /\ \A w \in Workers : wpc[w] = "idle"
        /\ spc' = IF remaining > 0 /\ progressed <= 0 THEN "sleep" ELSE "round_start"
        /\ round' = NoRound
        /\ UNCHANGED <<before_done, queue, storeVars, workerVars, gateVars, cfgVars>>

\* await asyncio.sleep(1.0) ends
RoundSleep ==
    /\ spc = "sleep"
    /\ spc' = "round_start"
    /\ UNCHANGED <<before_done, queue, round, storeVars, workerVars, gateVars, cfgVars>>

----------------------------------------------------------------------------
(* Configuration *)

QpsValues == {0, 2, 4}

ClientInit ==
    /\ cl_lock = [a \in AccountIds |-> FreeLock]
    /\ next_ts = [a \in AccountIds |-> 0]
    /\ cpc = [w \in Workers |-> "none"]
    /\ ctarget = [w \in Workers |-> None]
    /\ wake = [w \in Workers |-> 0]
    /\ since = [a \in AccountIds |-> Never]
    /\ last_gap = [a \in AccountIds |-> Never]
    /\ raw_log = 0

GateInit ==
    /\ gate_locks = <<>>
    /\ gst = [w \in Workers |-> "out"]
    /\ gacc = [w \in Workers |-> None]
    /\ glock = [w \in Workers |-> ""]
    /\ gcycle = [w \in Workers |-> 0]
    /\ gelapsed = [w \in Workers |-> 0]
    /\ gqueued = [w \in Workers |-> FALSE]
    /\ grefreshed = [w \in Workers |-> "none"]
    /\ gobs = [w \in Workers |-> NoObs]

\* The parts followed on their own, at rest
NoFetch == [parser |-> "", max_pages |-> 0, pages |-> <<>>, called |-> FALSE,
            items |-> <<>>, total |-> None, fetched |-> 0]
NoProc == [pc |-> "off"]
NoInst == [pc |-> "off"]
NoLoad == [called |-> FALSE]
PartInit == fetch = NoFetch /\ proc = NoProc /\ inst = NoInst /\ load = NoLoad

\* init_db opens the store with the rows an earlier run left: done names
\* the keywords that have a 'success' row.
StoreInit(done) ==
    /\ task_state = [k \in StoreKeywords |-> IF k \in done THEN "success" ELSE "none"]
    /\ task_error = [k \in StoreKeywords |-> ""]
    /\ result_store = [k \in StoreKeywords |->
                           IF k \in done THEN [keyword |-> k, found |-> TRUE] ELSE NoPayload]
    /\ out_log = SelectSeq([k \in StoreKeywords |-> [keyword |-> k, found |-> TRUE]],
                          LAMBDA line : line.keyword \in done)

SchedInit ==
    /\ spc = "round_start"
    /\ before_done = 0
    /\ queue = <<>>
    /\ round = NoRound
    /\ wpc = [w \in Workers |-> "idle"]
    /\ wkw = [w \in Workers |-> None]
    /\ wres = [w \in Workers |-> NoOutcome]
    /\ wfly = [w \in Workers |-> None]
    /\ wcalls = [w \in Workers |-> 0]
    /\ wgates = [w \in Workers |-> 0]
    /\ wfirst = [w \in Workers |-> "none"]

RunInit == StoreInit({}) /\ SchedInit

\* The callers of SpecClient all call one AccountClient: clients share no
\* state, and every worker may be sent to the same client.
CalledClients == {Min(1, NumAccounts)}

InitClient ==
    /\ \E b \in BOOLEAN : args = [DefaultArgs EXCEPT !.raw_log = b, !.concurrency = 3]
    /\ \E q \in QpsValues : accounts = [i \in AccountIds |-> Account(q, NoOverride)]
    /\ platform = "darwin"
    /\ ClientInit
    /\ GateInit
    /\ PartInit
    /\ RunInit

NextClient ==
    /\ \/ Tick
       \/ \E w \in Workers, a \in CalledClients : GetJsonCall(w, a)
       \/ \E w \in Workers : GetJsonAcquire(w)
       \/ \E w \in Workers : GetJsonWake(w)
       \/ \E w \in Workers, r \in Responses : GetJsonRespond(w, r)
    /\ UNCHANGED <<gateVars, runVars, partVars>>

SpecClient == InitClient /\ [][NextClient]_vars

\* Browser surfaces the accounts of a run can be bound to. The first two
\* differ in url_keyword and window_keyword; SurfaceTagged names its window
\* by tag; SurfaceWindows is refreshed the Windows way.
SurfaceA == [NoOverride EXCEPT !.refresh_method = "mac", !.refresh_url_keyword = "wb|c",
                               !.refresh_window_keyword = "x"]
SurfaceB == [NoOverride EXCEPT !.refresh_method = "mac", !.refresh_url_keyword = "wb",
                               !.refresh_window_keyword = "c|x"]
SurfaceTagged == [NoOverride EXCEPT !.refresh_method = "mac", !.refresh_window_tag = "acc1"]
SurfaceWindows == [NoOverride EXCEPT !.refresh_method = "windows"]
\* The runs of SpecGate: the accounts' surfaces (dealt out in turn),
\* sys.platform, (verify_poll_interval, verify_cycle_timeout) in gate ticks,
\* and max_retries.
GateRun(s, p, t, m) == [surfaces |-> s, platform |-> p, timing |-> t, max_retries |-> m]
GateRuns ==
    {GateRun(<<NoOverride, NoOverride>>, "darwin", <<0, 0>>, 1),
     GateRun(<<NoOverride, NoOverride>>, "darwin", <<4, 12>>, 1),
     GateRun(<<NoOverride, NoOverride>>, "win32", <<0, 0>>, 1),
     GateRun(<<NoOverride, NoOverride>>, "darwin", <<0, 0>>, 0),
     GateRun(<<SurfaceA, SurfaceB>>, "darwin", <<0, 0>>, 1),
     GateRun(<<SurfaceTagged, SurfaceWindows>>, "darwin", <<0, 0>>, 1),
     GateRun(<<SurfaceTagged, SurfaceWindows>>, "win32", <<4, 12>>, 1)}

InitGate ==
    \E run \in GateRuns :
        /\ args = [DefaultArgs EXCEPT !.verify_poll_interval = run.timing[1],
                                      !.verify_cycle_timeout = run.timing[2],
                                      !.max_retries = run.max_retries,
                                      !.concurrency = 2]
        /\ accounts = [i \in AccountIds |-> Account(MinQps, run.surfaces[((i - 1) % 2) + 1])]
        /\ platform = run.platform
        /\ ClientInit
        /\ GateInit
        /\ PartInit
        /\ RunInit

NextGate ==
    /\ \/ \E w \in Workers, acc \in AccountIds \cup {None} : RunOneKeywordNotFound(w, acc)
       \/ \E w \in Workers : GateAcquire(w)
       \/ \E w \in Workers, ok \in BOOLEAN : GateRefresh(w, ok)
       \/ \E w \in Workers, st \in StateAnswers, d \in 0..MaxCallTicks :
              \E url \in UrlAnswersFor(gacc[w], st) : GatePoll(w, st, url, d)
       \/ \E w \in Workers : GateReturn(w)
    /\ UNCHANGED <<clientVars, runVars, partVars>>

SpecGate == InitGate /\ [][NextGate]_vars

\* The runs of Spec: concurrency, refresh_on_not_found,
\* retry_false_after_verify, sys.platform, --limit, and the keywords an earlier run
\* left done in the store. The serial runs are on macOS (the
\* gate polls), the parallel runs on Windows (the gate refreshes and pauses).
\* The poll interval is 6 s, the cycle timeout 5 s.
Run(c, r, t, p, l, d) ==
    [concurrency |-> c, refresh_on_not_found |-> r, retry_false_after_verify |-> t,
     platform |-> p, limit |-> l, done |-> d]
Runs ==
    {Run(1, TRUE, TRUE, "darwin", 2, {}), Run(1, TRUE, FALSE, "darwin", 2, {}),
     Run(2, TRUE, TRUE, "win32", 2, {}), Run(2, FALSE, TRUE, "win32", 3, {}),
     Run(1, FALSE, TRUE, "darwin", 2, {NumKeywords + 1}),
     Run(2, FALSE, TRUE, "win32", 2, {1, NumKeywords + 1})}

Init ==
    \E run \in Runs :
        /\ args = [DefaultArgs EXCEPT !.concurrency = run.concurrency,
                                      !.refresh_on_not_found = run.refresh_on_not_found,
                                      !.retry_false_after_verify = run.retry_false_after_verify,
                                      !.max_retries = 1,
                                      !.limit = run.limit,
                                      !.verify_poll_interval = 12,
                                      !.verify_cycle_timeout = 0]
        /\ accounts = [i \in AccountIds |-> Account(MinQps, NoOverride)]
        /\ platform = run.platform
        /\ ClientInit
        /\ GateInit
        /\ PartInit
        /\ StoreInit(run.done)
        /\ SchedInit

Next ==
    \/ RoundStart /\ UNCHANGED <<clientVars, partVars>>
    \/ SerialNext /\ UNCHANGED <<clientVars, partVars>>
    \/ \E w \in Workers : WorkerGet(w) /\ UNCHANGED <<clientVars, partVars>>
    \/ \E w \in Workers, a \in AccountIds : FetchIssue(w, a) /\ UNCHANGED <<clientVars, partVars>>
    \/ \E w \in Workers : FetchReturn(w) /\ UNCHANGED <<clientVars, partVars>>
    \/ \E w \in Workers, r \in ProcessResults :
           ProcessReturn(w, r.found, r.error) /\ UNCHANGED <<clientVars, partVars>>
    \/ \E w \in Workers : GateAcquire(w) /\ UNCHANGED <<clientVars, runVars, partVars>>
    \/ \E w \in Workers, ok \in BOOLEAN : GateRefresh(w, ok) /\ UNCHANGED <<clientVars, runVars, partVars>>
    \/ \E w \in Workers, st \in StateAnswers, d \in 0..MaxCallTicks :
           \E url \in UrlAnswersFor(gacc[w], st) :
               GatePoll(w, st, url, d) /\ UNCHANGED <<clientVars, runVars, partVars>>
    \/ \E w \in Workers : GateReturn(w) /\ UNCHANGED <<clientVars, runVars, partVars>>
    \/ \E w \in Workers : AfterGate(w) /\ UNCHANGED <<clientVars, partVars>>
    \/ \E w \in Workers, fail \in PersistFailures : Persist(w, fail) /\ UNCHANGED <<clientVars, partVars>>
    \/ RoundEnd /\ UNCHANGED <<clientVars, partVars>>
    \/ RoundSleep /\ UNCHANGED <<clientVars, partVars>>

Spec == Init /\ [][Next]_vars

----------------------------------------------------------------------------
(* Claims on AccountClient *)

\* C1: any two requests issued through one AccountClient are issued at least
\* interval = 1/max(0.01, R) apart, for any number of concurrent callers.
C1_MinSpacing ==
    \A a \in AccountIds :
        last_gap[a] # Never =>
            last_gap[a] >= IntervalAtFloor \div Max(MinQps, accounts[a].qps)

\* C1 witness: a client at the floor rate has issued a second request, after
\* its caller slept, while another caller waits for the lock.
C1_Witness ==
    \E a \in AccountIds :
        /\ last_gap[a] # Never
        /\ accounts[a].qps = 0
        /\ \E w \in Workers : cpc[w] = "wait_lock" /\ ctarget[w] = a

\* C2: at no time are two callers of one AccountClient inside its locked
\* wait/issue sequence: a second caller starts it only after the first
\* caller's request returned or raised.
InLockedSection(w, a) == cpc[w] \in {"sleep", "flight"} /\ ctarget[w] = a

C2_OneInFlight ==
    \A a \in AccountIds :
        \A w1, w2 \in Workers :
            (InLockedSection(w1, a) /\ InLockedSection(w2, a)) => w1 = w2

\* C2 witness: one caller's request is in flight while a second caller of the
\* same client waits for the lock.
C2_Witness ==
    \E a \in AccountIds, w1, w2 \in Workers :
        /\ w1 # w2
        /\ cpc[w1] = "flight" /\ ctarget[w1] = a
        /\ cpc[w2] = "wait_lock" /\ ctarget[w2] = a

----------------------------------------------------------------------------
(* Claims on the verification gate *)

Driving(w) == gst[w] \in {"refreshing", "polling", "cleared"}
GateTuple(w) == ResolveAccountRefreshSettings(gacc[w])

\* C3: workers that entered the gate with the same resolved (method,
\* url-keyword, window-keyword, window-index, window-tag) tuple are mutually
\* excluded: at most one of them is inside the refresh/poll cycle.
C3_SameTupleExclusive ==
    \A w1, w2 \in Workers :
        (w1 # w2 /\ Driving(w1) /\ Driving(w2)) => GateTuple(w1) # GateTuple(w2)

\* C3 witness: a worker polls while a worker that entered with another
\* account of the same resolved tuple waits for the gate lock.
C3_Witness ==
    \E w1, w2 \in Workers :
        /\ gst[w1] = "polling" /\ gst[w2] = "wait"
        /\ gacc[w1] # None /\ gacc[w2] # None /\ gacc[w1] # gacc[w2]
        /\ GateTuple(w1) = GateTuple(w2)

\* C4 as stated: a worker that queued behind the driver is released by the
\* driver's clearance and never runs a refresh/poll cycle of its own.
C4_QueuedNeverDrive ==
    \A w \in Workers : gqueued[w] => ~Driving(w)

\* C4, amended: a queued worker is not released by the driver's clearance. It
\* leaves the gate only from its own CLEARED state, after it was handed the
\* lock in its turn and issued at least one refresh of its own.
C4_QueuedDriveOwnCycle ==
    [][\A w \in Workers :
          (gqueued[w] /\ gst[w] # "out" /\ gst'[w] = "out")
              => (gst[w] = "cleared" /\ gcycle[w] >= 1)]_vars

\* C4 witness: a worker that had to queue has driven its own cycle to CLEARED.
C4_Witness ==
    \E w \in Workers : gqueued[w] /\ gst[w] = "cleared" /\ gcycle[w] >= 1

\* C6: workers whose gate entries resolve to different tuples never block
\* each other: a worker waits for a gate lock only behind a worker whose
\* entry resolved to the same tuple.
C6_DifferentTuplesIndependent ==
    \A w1, w2 \in Workers :
        (gst[w1] = "wait" /\ Driving(w2) /\ glock[w1] = glock[w2])
            => GateTuple(w1) = GateTuple(w2)

ClearanceObserved(o) ==
    \/ o.via = "state" /\ o.text = "OK"
    \/ o.via = "url" /\ o.text \in Locations /\ ~ContainsCaptchaShow(o.text)

\* C7: on a polling-capable platform/method the gate returns only after a
\* successful refresh followed by an observed clearance: poll state OK, or in
\* URL fallback a location that does not match the challenge pattern.
C7_ReturnsOnlyAfterClearance ==
    \A w \in Workers :
        (gst[w] = "cleared" /\ SupportsVerifyPoll(gacc[w]))
            => (grefreshed[w] = "ok" /\ ClearanceObserved(gobs[w]))

\* C8 as stated: once verify_cycle_timeout (at least 5 s) has elapsed since
\* POLLING was entered without clearance, the next action is a refresh, so no
\* poll is due at or after the timeout.
C8_NoPollAfterTimeout ==
    \A w \in Workers :
        gst[w] = "polling" => gelapsed[w] < Max(MinCycleTimeout, args.verify_cycle_timeout)

NoClearanceYet(o) ==
    \/ o.via = "state" /\ o.text \in {"PENDING", "JSERR:e", "NO_TAB"}
    \/ o.via = "url" /\ ContainsCaptchaShow(o.text)

\* C8, amended: the timeout is looked at only when a poll answers without
\* clearance. If max(5 s, verify_cycle_timeout) has elapsed by then, the cycle
\* is abandoned and the next action is a refresh; if not, the next action is
\* a poll after max(0.5 s, verify_poll_interval), never a refresh. A poll that
\* falls due after the timeout is still made.
C8_TimeoutAfterPollAnswer ==
    \A w \in Workers :
        NoClearanceYet(gobs[w]) =>
            IF gobs[w].at >= Max(MinCycleTimeout, args.verify_cycle_timeout)
            THEN gst[w] = "refreshing"
            ELSE /\ gst[w] = "polling"
                 /\ gelapsed[w] = Min(Max(MinCycleTimeout, args.verify_cycle_timeout),
                                      gobs[w].at + Max(MinPollInterval, args.verify_poll_interval))

\* C8 witness: a PENDING answer arrived at the timeout of a configured
\* 6 s cycle and the gate is about to refresh again.
C8_Witness ==
    \E w \in Workers :
        /\ gobs[w].via = "state" /\ gobs[w].text = "PENDING"
        /\ args.verify_cycle_timeout > MinCycleTimeout
        /\ gobs[w].at >= args.verify_cycle_timeout
        /\ gst[w] = "refreshing"

----------------------------------------------------------------------------
(* Claims on run_one_keyword and the scheduler *)

Cycling(w) == gst[w] \in {"refreshing", "polling"}
Issues(w) == wfly[w] = None /\ wfly'[w] # None

\* C5 as stated: while the gate of a challenge surface is in its refresh/poll
\* cycle, no worker issues a request through an account bound to that surface.
C5_SurfacePaused ==
    [][\A w \in Workers :
          Issues(w) =>
              ~\E d \in Workers :
                  Cycling(d) /\ GateTuple(d) = ResolveAccountRefreshSettings(wfly'[w])]_vars

\* C5, amended: the gate pauses the workers that entered it. A worker that
\* received a found=false Outcome and entered the gate of the surface, as
\* driver or queued on its lock, issues no request until its gate call has
\* returned; workers that have not entered the gate are not paused and go on
\* issuing requests through the accounts bound to that surface.
C5_GateEntrantsPaused ==
    [][\A w \in Workers : Issues(w) => gst[w] = "out"]_vars

\* C5 witness: one worker drives a gate cycle while another worker has a
\* request in flight through an account bound to the same surface.
C5_Witness ==
    \E d, w \in Workers :
        /\ d # w /\ Cycling(d)
        /\ wfly[w] # None
        /\ GateTuple(d) = ResolveAccountRefreshSettings(wfly[w])

\* C9: with refresh_on_not_found and retry_false_after_verify set, a dispatch
\* whose first Outcome has found=false has entered the gate exactly once and
\* called process_keyword exactly twice when it persists, and what it
\* persists is the Outcome of the second call, whatever its found.
C9_RetryOncePersistRetry ==
    [][\A w \in Workers :
          (/\ args.refresh_on_not_found /\ args.retry_false_after_verify
           /\ wfirst[w] = "notfound"
           /\ wpc[w] = "persist" /\ wpc'[w] # "persist")
              => /\ wgates[w] = 1
                 /\ wcalls[w] = 2
                 /\ wres[w].data = 2
                 /\ \/ result_store' = result_store /\ task_state' = task_state
                    \/ result_store'[wkw[w]] = PublicItem(wres[w])]_vars

\* C9 witness: a dispatch went through the gate, its retry came back with
\* found=false again, and that second Outcome is about to be persisted.
C9_Witness ==
    \E w \in Workers :
        /\ args.refresh_on_not_found /\ args.retry_false_after_verify
        /\ wfirst[w] = "notfound" /\ wpc[w] = "persist"
        /\ wcalls[w] = 2 /\ ~wres[w].found

\* C10: no exception raised while handling a keyword leaves the scheduler:
\* the run is never ended by one, for every worker_count.
C10_NeverAborts == spc # "aborted"

\* ---- Callers of get_json and gate entrants, run to completion ----
\* The event loop runs every task that is ready, a thread handed to
\* asyncio.to_thread returns (client.get has a timeout), and time passes:
\* a step that stays enabled is eventually taken. Whether a caller calls
\* get_json again, whether a worker enters the gate, and what the refresh
\* and the polls answer is left open. A worker is one task: it calls
\* get_json inside process_keyword and enters the gate after process_keyword
\* has returned, never both at once.
\* The runs: one without --refresh-on-not-found, whose clients pace their
\* requests, and one with it, whose clients' interval is below a client tick.
FastQps == 2 * IntervalAtFloor
LiveRuns ==
    {[refresh_on_not_found |-> FALSE, qps |-> IntervalAtFloor],
     [refresh_on_not_found |-> TRUE, qps |-> FastQps]}

\* What the state check answers in these runs: passed, still challenged.
LiveAnswers == {[ok |-> TRUE, text |-> "OK"], [ok |-> TRUE, text |-> "PENDING"]}

InitLive ==
    \E run \in LiveRuns :
        /\ args = [DefaultArgs EXCEPT !.concurrency = 2,
                                      !.refresh_on_not_found = run.refresh_on_not_found,
                                      !.verify_poll_interval = MinCycleTimeout,
                                      !.verify_cycle_timeout = MinCycleTimeout]
        /\ accounts = [i \in AccountIds |-> Account(run.qps, NoOverride)]
        /\ platform = "darwin"
        /\ ClientInit
        /\ GateInit
        /\ PartInit
        /\ RunInit

NextLive ==
    \/ /\ \/ Tick
          \/ \E w \in Workers, a \in CalledClients : gst[w] = "out" /\ GetJsonCall(w, a)
          \/ \E w \in Workers : GetJsonAcquire(w)
          \/ \E w \in Workers : GetJsonWake(w)
          \/ \E w \in Workers, r \in Responses : GetJsonRespond(w, r)
       /\ UNCHANGED <<gateVars, runVars, partVars>>
    \/ /\ \/ /\ args.refresh_on_not_found
             /\ \E w \in Workers, acc \in CalledClients :
                    cpc[w] = "none" /\ RunOneKeywordNotFound(w, acc)
          \/ \E w \in Workers : GateAcquire(w)
          \/ \E w \in Workers, ok \in BOOLEAN : GateRefresh(w, ok)
          \/ \E w \in Workers, st \in LiveAnswers : GatePoll(w, st, NoUrl, 0)
          \/ \E w \in Workers : GateReturn(w)
       /\ UNCHANGED <<clientVars, runVars, partVars>>

LiveClient(w) ==
    /\ w \in Workers
    /\ \/ GetJsonAcquire(w)
       \/ GetJsonWake(w)
       \/ \E r \in Responses : GetJsonRespond(w, r)
    /\ UNCHANGED <<gateVars, runVars, partVars>>
LiveGate(w) ==
    /\ w \in Workers
    /\ GateAcquire(w) \/ GateReturn(w)
    /\ UNCHANGED <<clientVars, runVars, partVars>>
LiveTick == Tick /\ UNCHANGED <<gateVars, runVars, partVars>>

SpecLive ==
    /\ InitLive
    /\ [][NextLive]_vars
    /\ WF_vars(LiveTick)
    /\ \A w \in AccountIds : WF_vars(LiveClient(w)) /\ WF_vars(LiveGate(w))

\* ---- The scheduler against a fetcher stub that always succeeds ----
\* Every keyword's single endpoint returns one item on page 1 and nothing
\* on page 2, and no request raises.
StubPages(k) == <<Page(TRUE, None, <<k>>), Page(TRUE, None, <<>>)>>

StubRun(c, l) == Run(c, TRUE, TRUE, "win32", l, {})
StubRuns == {StubRun(1, 1), StubRun(1, 3), StubRun(2, 3), StubRun(2, 0)}

InitStub ==
    \E run \in StubRuns :
        /\ args = [DefaultArgs EXCEPT !.concurrency = run.concurrency,
                                      !.refresh_on_not_found = run.refresh_on_not_found,
                                      !.retry_false_after_verify = run.retry_false_after_verify,
                                      !.max_retries = 1,
                                      !.limit = run.limit]
        /\ accounts = [i \in AccountIds |-> Account(MinQps, NoOverride)]
        /\ platform = run.platform
        /\ ClientInit
        /\ GateInit
        /\ PartInit
        /\ StoreInit(run.done)
        /\ SchedInit

NextStub ==
    \/ RoundStart /\ UNCHANGED <<clientVars, partVars>>
    \/ SerialNext /\ UNCHANGED <<clientVars, partVars>>
    \/ \E w \in Workers : WorkerGet(w) /\ UNCHANGED <<clientVars, partVars>>
    \/ \E w \in Workers, a \in AccountIds : FetchIssue(w, a) /\ UNCHANGED <<clientVars, partVars>>
    \/ \E w \in Workers : FetchReturn(w) /\ UNCHANGED <<clientVars, partVars>>
    \/ \E w \in Workers, max_pages \in 1..MaxPages :
           LET items == FetchEndpointItems(StubPages(wkw[w]), max_pages, "contributors").items
               r == EndpointResult(items, TRUE)
           IN  ProcessReturn(w, r.found, r.error) /\ UNCHANGED <<clientVars, partVars>>
    \/ \E w \in Workers, fail \in PersistFailures : Persist(w, fail) /\ UNCHANGED <<clientVars, partVars>>
    \/ RoundEnd /\ UNCHANGED <<clientVars, partVars>>
    \/ RoundSleep /\ UNCHANGED <<clientVars, partVars>>

SpecStub == InitStub /\ [][NextStub]_vars

\* ---- One fetch_endpoint_items call ----
\* What a page can hold: a total or none, and cards whose uids repeat
\* inside the page, repeat an earlier page's, or are missing.
Totals == {None, 5, 7}
CardLists == {<<>>, <<1>>, <<2, 1>>, <<1, 1>>, <<None>>}
PageKinds ==
    {Page(TRUE, t, c) : t \in Totals, c \in CardLists} \cup {Page(FALSE, None, <<>>)}
PageSeqs == UNION {[1..n -> PageKinds] : n \in 0..MaxPages}

InitFetch ==
    /\ args = DefaultArgs
    /\ accounts = [i \in AccountIds |-> Account(MinQps, NoOverride)]
    /\ platform = "darwin"
    /\ ClientInit
    /\ GateInit
    /\ RunInit
    /\ proc = NoProc /\ inst = NoInst /\ load = NoLoad
    /\ \E parser \in Parsers, max_pages \in 1..(MaxPages + 1), pages \in PageSeqs :
           fetch = [NoFetch EXCEPT !.parser = parser, !.max_pages = max_pages, !.pages = pages]

\* items, total = await fetch_endpoint_items(cli, raw_query, endpoint)
FetchCall ==
    LET r == FetchEndpointItems(fetch.pages, fetch.max_pages, fetch.parser)
    IN  /\ ~fetch.called
        /\ fetch' = [fetch EXCEPT !.called = TRUE, !.items = r.items,
                                  !.total = r.total, !.fetched = r.fetched]
        /\ UNCHANGED <<cfgVars, clientVars, gateVars, runVars, proc, inst, load>>

NextFetch == FetchCall

SpecFetch == InitFetch /\ [][NextFetch]_vars

\* ---- One load_keywords call ----
\* The cells of the keyword column as read, blank, padded and repeated
Cells == {"", " ", "a", "a ", "b", "c"}

\* str(...).strip()
Strip(cell) == IF cell = " " THEN "" ELSE IF cell = "a " THEN "a" ELSE cell

\* int(hashlib.md5(k.encode("utf-8")).hexdigest(), 16), a number per keyword
Md5(k) == IF k = "a" THEN 6 ELSE IF k = "b" THEN 3 ELSE 5

\* seen.add(k)
SeenNothing(seen, k) == seen
Seen(seen, k) == seen \cup {k}

\* for k in rows: if not k or k in seen: continue; out_all.append(k)
RECURSIVE FirstOccurrences(_, _)
FirstOccurrences(rows, seen) ==
    IF rows = <<>> THEN <<>>
    ELSE LET k == Head(rows)
         IN  IF k = "" \/ k \in seen
             THEN FirstOccurrences(Tail(rows), seen)
             ELSE <<k>> \o FirstOccurrences(Tail(rows), Seen(seen, k))

LoadKeywords(cells, limit, shard_index, shard_total) ==
    LET rows == [i \in 1..Len(cells) |-> Strip(cells[i])]
        out_all == FirstOccurrences(rows, {})
        out == IF shard_index >= 0
               THEN SelectSeq(out_all, LAMBDA k : Md5(k) % shard_total = shard_index)
               ELSE out_all
    IN  IF limit > 0 THEN SubSeq(out, 1, Min(limit, Len(out))) ELSE out

\* --limit, --shard-index and --shard-total of the calls followed
Limits == {0, 1, 2}
Shards == {<<-1, 1>>, <<0, 2>>, <<1, 2>>}

InitLoad ==
    /\ args = DefaultArgs
    /\ accounts = [i \in AccountIds |-> Account(MinQps, NoOverride)]
    /\ platform = "darwin"
    /\ ClientInit
    /\ GateInit
    /\ RunInit
    /\ fetch = NoFetch /\ proc = NoProc /\ inst = NoInst
    /\ \E n \in 0..MaxRows : \E cells \in [1..n -> Cells] :
       \E limit \in Limits, shard \in Shards :
           load = [called |-> FALSE, cells |-> cells, limit |-> limit,
                   shard_index |-> shard[1], shard_total |-> shard[2], out |-> <<>>]

\* keywords = load_keywords(csv_path, keyword_column, limit, shard_index, shard_total)
LoadCall ==
    /\ ~load.called
    /\ load' = [load EXCEPT !.called = TRUE,
                            !.out = LoadKeywords(load.cells, load.limit,
                                                 load.shard_index, load.shard_total)]
    /\ UNCHANGED <<cfgVars, clientVars, gateVars, runVars, fetch, proc, inst>>

NextLoad == LoadCall

SpecLoad == InitLoad /\ [][NextLoad]_vars

\* ---- One process_keyword call ----
\* proc holds the call's inputs (hash: md5 of the keyword as a number,
\* endpoints: the output fields of api_endpoints in order, variants: the
\* number of query variants), its position (attempt, ci: index into
\* active_order, vi: index of the variant), its locals last_err and
\* last_account, the Outcome it returned, and as history the result of the
\* last endpoint loop (last), the failed account tries (tries) and the
\* accounts through which an endpoint loop came back with a payload
\* (fetched_ok). endpoint_payload is the dict of the variant last run, with
\* what its endpoints returned before one of them raised.

\* idx = md5(keyword) % len(clients); order rotates the clients from idx;
\* active_order is order, or its first client without fallback.
OrderFromFirst(hash) == [i \in 1..NumAccounts |-> i]
Order(hash) == [i \in 1..NumAccounts |-> (((hash % NumAccounts) + i - 1) % NumAccounts) + 1]
FallbackMode == args.fallback_to_other_accounts /\ ~args.strict_account_isolation
ActiveOrder(hash) == IF FallbackMode THEN Order(hash) ELSE <<Order(hash)[1]>>

\* The list fields of an Outcome: those of default_payload and the
\* endpoints' output fields.
DefaultFields == {"publish_media_list", "top_contributors"}
FieldsOf(endpoints) == {endpoints[i] : i \in 1..Len(endpoints)}
DefaultPayload(endpoints) == [f \in DefaultFields \cup FieldsOf(endpoints) |-> <<>>]

\* What one pass over the endpoints of a variant can give: a fetch raised,
\* or every endpoint came back with its items.
FetchErrors == {"TimeoutError", "RiskControlBlockedError"}
ContribEmpty == "RuntimeError: contributors empty"
ItemLists == {<<>>, <<[uid |-> 1]>>}
Raised(e, pl) == [kind |-> "raise", error |-> e, payload |-> pl]
Fetched(pl) == [kind |-> "payload", error |-> "", payload |-> pl]
FieldsBefore(endpoints, n) == {endpoints[i] : i \in 1..(n - 1)}
VariantResults(endpoints) ==
    UNION {{Raised(e, pl) : e \in FetchErrors, pl \in [FieldsBefore(endpoints, n) -> ItemLists]} :
              n \in 1..Len(endpoints)} \cup
    {Fetched(pl) : pl \in [FieldsOf(endpoints) -> ItemLists]}
NoResult == [kind |-> "none", error |-> "", payload |-> <<>>]

\* endpoint_payload: Dict[str, Any] = {} at the head of a variant, and
\* endpoint_payload[endpoint.output_field] = items for each endpoint fetched;
\* via notes, for each field, the attempt, account and variant of its fetch.
NoEndpointPayload == [items |-> <<>>, via |-> <<>>]
Assigned(d, e) == [f \in DOMAIN d \cup DOMAIN e |-> IF f \in DOMAIN e THEN e[f] ELSE d[f]]
Via(attempt, account, variant) == [attempt |-> attempt, account |-> account, variant |-> variant]

\* default_payload.update(endpoint_payload)
Updated(endpoints, pl) ==
    [f \in DefaultFields \cup FieldsOf(endpoints) |-> IF f \in DOMAIN pl THEN pl[f] ELSE <<>>]

\* found = any(bool(default_payload.get(endpoint.output_field)) ...)
FoundAll(endpoints, payload) == \A f \in FieldsOf(endpoints) : payload[f] # <<>>
Found(endpoints, payload) == \E f \in FieldsOf(endpoints) : payload[f] # <<>>

\* has_contrib_endpoint = any(ep.output_field == "top_contributors" ...)
HasSomeEndpoint(endpoints) == endpoints # <<>>
HasContribEndpoint(endpoints) == "top_contributors" \in FieldsOf(endpoints)

\* if has_contrib_endpoint and (not contrib_list) and (not allow_empty_contrib)
RejectedIfAllEmpty(endpoints, payload) ==
    /\ HasContribEndpoint(endpoints)
    /\ ~Found(endpoints, payload)
    /\ ~args.allow_empty_contrib
Rejected(endpoints, payload) ==
    /\ HasContribEndpoint(endpoints)
    /\ payload["top_contributors"] = <<>>
    /\ ~args.allow_empty_contrib

\* The Outcome dicts of process_keyword
ProcOutcome(found, payload, account, ok, error) ==
    [found |-> found, payload |-> payload, account |-> account, ok |-> ok, error |-> error]
NoProcOutcome == ProcOutcome(FALSE, <<>>, None, FALSE, "")
FailureOutcome ==
    ProcOutcome(FALSE, [f \in DefaultFields |-> <<>>], proc.last_account, FALSE,
                IF proc.last_err = "" THEN "unknown" ELSE proc.last_err)

\* "_account": cli.account.name
OutcomePrimary(order, ci) == order[1]
OutcomeAccount(order, ci) == order[ci]

\* last_err = f"{type(e).__name__}: {e}"
KeepFirstErr(last_err, e) == IF last_err = "" THEN e ELSE last_err
LastErr(last_err, e) == e

\* The call as it enters its loops (max_retries < 1 leaves none to enter).
ProcStart(hash, endpoints, variants) ==
    [pc |-> IF args.max_retries >= 1 THEN "try" ELSE "exhausted",
     hash |-> hash, endpoints |-> endpoints, variants |-> variants,
     attempt |-> 1, ci |-> 1, vi |-> 1,
     last_err |-> "", last_account |-> None,
     out |-> NoProcOutcome,
     endpoint_payload |-> NoEndpointPayload,
     last |-> NoResult, tries |-> <<>>, fetched_ok |-> {}]

\* is_last_variant = i == len(variants) - 1
IsLastVariantAlways(vi, variants) == vi <= variants
IsLastVariant(vi, variants) == vi = variants

\* The except handler of an account try: the error and the account are
\* noted, the back-off sleep passes, and the loops go on to the next client
\* of active_order, the next attempt, or past the loops.
TryFailed(e) ==
    LET active_order == ActiveOrder(proc.hash)
        cli == active_order[proc.ci]
        more_clients == proc.ci < Len(active_order)
        more_attempts == proc.attempt < args.max_retries
    IN  [proc EXCEPT
            !.last_err = LastErr(@, e),
            !.last_account = cli,
            !.tries = Append(@, [attempt |-> proc.attempt, account |-> cli, error |-> e]),
            !.vi = 1,
            !.ci = IF more_clients THEN @ + 1 ELSE 1,
            !.attempt = IF more_clients \/ ~more_attempts THEN @ ELSE @ + 1,
            !.pc = IF more_clients \/ more_attempts THEN "try" ELSE "exhausted"]

\* One variant of an account try: the endpoints are fetched in turn through
\* the client. A fetch that raises, or an empty contributors list that is
\* not allowed, goes on to the next variant, and on the last variant fails
\* the try; otherwise the Outcome is returned.
ProcVariant(r) ==
    LET active_order == ActiveOrder(proc.hash)
        cli == active_order[proc.ci]
        is_last_variant == IsLastVariant(proc.vi, proc.variants)
        here == Via(proc.attempt, cli, proc.vi)
        endpoint_payload ==
            [items |-> Assigned(NoEndpointPayload.items, r.payload),
             via |-> Assigned(NoEndpointPayload.via, [f \in DOMAIN r.payload |-> here])]
        default_payload ==
            IF r.kind = "raise" THEN DefaultPayload(proc.endpoints)
            ELSE Updated(proc.endpoints, endpoint_payload.items)
        found == Found(proc.endpoints, default_payload)
        noted == [proc EXCEPT !.last = [r EXCEPT !.payload = default_payload],
                              !.endpoint_payload = endpoint_payload,
                              !.fetched_ok = IF r.kind = "payload" THEN @ \cup {cli} ELSE @]
        failing == r.kind = "raise" \/ Rejected(proc.endpoints, default_payload)
        e == IF r.kind = "raise" THEN r.error ELSE ContribEmpty
    IN  /\ proc.pc = "try"
        /\ r \in VariantResults(proc.endpoints)
        /\ proc' =
              IF failing /\ ~is_last_variant
              THEN [noted EXCEPT !.vi = @ + 1]
              ELSE IF failing
              THEN [TryFailed(e) EXCEPT !.last = noted.last, !.fetched_ok = noted.fetched_ok,
                                         !.endpoint_payload = noted.endpoint_payload]
              ELSE [noted EXCEPT
                       !.pc = "returned",
                       !.out = ProcOutcome(found, default_payload,
                                           OutcomeAccount(active_order, proc.ci), TRUE, "")]
        /\ UNCHANGED <<cfgVars, clientVars, gateVars, runVars, fetch, inst, load>>

\* Past the loops: the failure Outcome
ProcReturnFailure ==
    /\ proc.pc = "exhausted"
    /\ proc' = [proc EXCEPT !.pc = "returned", !.out = FailureOutcome]
    /\ UNCHANGED <<cfgVars, clientVars, gateVars, runVars, fetch, inst, load>>

\* The calls followed: strict_account_isolation, fallback_to_other_accounts,
\* allow_empty_contrib, max_retries, the endpoints' output fields and the
\* number of query variants.
ProcRun(s, f, a, m, e, v) ==
    [strict |-> s, fallback |-> f, allow |-> a, max_retries |-> m, endpoints |-> e, variants |-> v]
ProcRuns ==
    {ProcRun(FALSE, TRUE, FALSE, 2, <<"publish_media_list", "top_contributors">>, 2),
     ProcRun(FALSE, TRUE, TRUE, 1, <<"publish_media_list", "top_contributors">>, 2),
     ProcRun(FALSE, TRUE, FALSE, 2, <<"publish_media_list">>, 1),
     ProcRun(FALSE, TRUE, FALSE, 1, <<"top_contributors">>, 2),
     ProcRun(TRUE, TRUE, FALSE, 2, <<"publish_media_list", "top_contributors">>, 1),
     ProcRun(FALSE, FALSE, FALSE, 2, <<"publish_media_list">>, 2),
     ProcRun(TRUE, FALSE, TRUE, 1, <<"extra">>, 1),
     ProcRun(FALSE, TRUE, FALSE, 0, <<"publish_media_list", "top_contributors">>, 2)}
Hashes == {0, 1, 2, 5}

InitProc ==
    \E run \in ProcRuns, hash \in Hashes :
        /\ args = [DefaultArgs EXCEPT !.strict_account_isolation = run.strict,
                                      !.fallback_to_other_accounts = run.fallback,
                                      !.allow_empty_contrib = run.allow,
                                      !.max_retries = run.max_retries]
        /\ accounts = [i \in AccountIds |-> Account(MinQps, NoOverride)]
        /\ platform = "darwin"
        /\ ClientInit
        /\ GateInit
        /\ RunInit
        /\ fetch = NoFetch /\ inst = NoInst /\ load = NoLoad
        /\ proc = ProcStart(hash, run.endpoints, run.variants)

NextProc ==
    \/ \E r \in VariantResults(proc.endpoints) : ProcVariant(r)
    \/ ProcReturnFailure

SpecProc == InitProc /\ [][NextProc]_vars

\* ---- Two process instances started on one state database ----
\* inst holds, for each instance, where it is (pc: off, init_db, running,
\* failed: init_db raised, crashed: a write raised, exited), the todo of
\* its round, the keyword it holds and how far persist_result is with it
\* (stage: idle, fetched, reserved: the INSERTs ran and the connection has
\* the write lock, exclusive: the commit is writing the file), and the
\* ticks it has waited on a busy database; and, for the database file, the
\* committed writers of each keyword's rows (rows) and the keywords each
\* instance took from its todo (dispatched); late notes an instance that
\* was launched while another was running.
Instances == {1, 2}
InstKeywords == {1, 2}
Others(i) == Instances \ {i}

\* sqlite3.connect(timeout=30.0), PRAGMA busy_timeout=30000: ticks a
\* statement waits on a lock before "database is locked"
BusyTicks == 2

InstStart ==
    [pc |-> [i \in Instances |-> "off"],
     late |-> [i \in Instances |-> FALSE],
     todo |-> [i \in Instances |-> {}],
     cur |-> [i \in Instances |-> None],
     stage |-> [i \in Instances |-> "idle"],
     waited |-> [i \in Instances |-> 0],
     rows |-> [k \in InstKeywords |-> <<>>],
     dispatched |-> [i \in Instances |-> {}]]

UnchangedByInst == UNCHANGED <<cfgVars, clientVars, gateVars, runVars, fetch, proc, load>>

\* The locks of the rollback-journal database: a writer between its first
\* INSERT and its commit keeps readers out only while the commit writes.
WriteLocked(i) == \E j \in Others(i) : inst.stage[j] \in {"reserved", "exclusive"}
ReadLocked(i) == \E j \in Others(i) : inst.stage[j] = "exclusive"

\* python weibo_bulk_api.py ...: main_async up to the call of init_db
InstLaunch(i) ==
    /\ inst.pc[i] = "off"
    /\ inst' = [inst EXCEPT !.pc[i] = "init_db",
                            !.late[i] = \E j \in Others(i) : inst.pc[j] = "running"]
    /\ UnchangedByInst

\* init_db: connect, the pragmas, CREATE TABLE IF NOT EXISTS, commit. The
\* statements read the schema, which only a commit in progress holds up.
InitDb(i) ==
    /\ inst.pc[i] = "init_db"
    /\ ~ReadLocked(i)
    /\ inst' = [inst EXCEPT !.pc[i] = "running", !.waited[i] = 0]
    /\ UnchangedByInst

\* A statement waiting on a lock: after the busy timeout sqlite raises
\* "database is locked", which init_db turns into the RuntimeError
\* "数据库被占用" and which persist_result lets through.
BusyWait(i) ==
    /\ \/ inst.pc[i] = "init_db" /\ ReadLocked(i)
       \/ inst.pc[i] = "running" /\ inst.stage[i] = "fetched" /\ WriteLocked(i)
    /\ inst' = IF inst.waited[i] + 1 < BusyTicks
               THEN [inst EXCEPT !.waited[i] = @ + 1]
               ELSE [inst EXCEPT !.waited[i] = 0,
                                 !.pc[i] = IF inst.pc[i] = "init_db" THEN "failed" ELSE "crashed"]
    /\ UnchangedByInst

\* while True: done = get_done_keywords(conn); todo = ...; if not todo: break
InstRound(i) ==
    LET todo == {k \in InstKeywords : inst.rows[k] = <<>>}
    IN  /\ inst.pc[i] = "running"
        /\ inst.stage[i] = "idle"
        /\ inst.todo[i] = {}
        /\ inst' = IF todo = {}
                   THEN [inst EXCEPT !.pc[i] = "exited"]
                   ELSE [inst EXCEPT !.todo[i] = todo]
        /\ UnchangedByInst

\* run_one_keyword(kw) up to persist_result, for the next keyword of the todo
InstDispatch(i) ==
    /\ inst.pc[i] = "running"
    /\ inst.stage[i] = "idle"
    /\ inst.todo[i] # {}
    /\ LET kw == CHOOSE k \in inst.todo[i] : \A l \in inst.todo[i] : k <= l
       IN  inst' = [inst EXCEPT !.todo[i] = @ \ {kw},
                                !.cur[i] = kw,
                                !.stage[i] = "fetched",
                                !.dispatched[i] = @ \cup {kw}]
    /\ UnchangedByInst

\* persist_result: the two INSERT ... ON CONFLICT statements
InstInsert(i) ==
    /\ inst.pc[i] = "running"
    /\ inst.stage[i] = "fetched"
    /\ ~WriteLocked(i)
    /\ inst' = [inst EXCEPT !.stage[i] = "reserved", !.waited[i] = 0]
    /\ UnchangedByInst

\* persist_result: conn.commit() starts writing the file
InstCommitBegin(i) ==
    /\ inst.pc[i] = "running"
    /\ inst.stage[i] = "reserved"
    /\ inst' = [inst EXCEPT !.stage[i] = "exclusive"]
    /\ UnchangedByInst

\* persist_result: conn.commit() returns, the rows are in the file
InstCommitEnd(i) ==
    /\ inst.pc[i] = "running"
    /\ inst.stage[i] = "exclusive"
    /\ inst' = [inst EXCEPT !.stage[i] = "idle",
                            !.rows[inst.cur[i]] = Append(@, i),
                            !.cur[i] = None]
    /\ UnchangedByInst

InitInstances ==
    /\ args = DefaultArgs
    /\ accounts = [i \in AccountIds |-> Account(MinQps, NoOverride)]
    /\ platform = "darwin"
    /\ ClientInit
    /\ GateInit
    /\ RunInit
    /\ fetch = NoFetch /\ proc = NoProc /\ load = NoLoad
    /\ inst = InstStart

NextInstances ==
    \E i \in Instances :
        \/ InstLaunch(i)
        \/ InitDb(i)
        \/ BusyWait(i)
        \/ InstRound(i)
        \/ InstDispatch(i)
        \/ InstInsert(i)
        \/ InstCommitBegin(i)
        \/ InstCommitEnd(i)

SpecInstances == InitInstances /\ [][NextInstances]_vars

Stopped == spc \in {"done", "aborted"}
InRound == spc \in {"serial", "parallel"}
QueueSet == {queue[i] : i \in 1..Len(queue)}

\* C11: a keyword of the list is in a round's todo exactly when the store
\* holds no 'success' row for it at the start of that round, whatever the
\* earlier rounds did; and a persist that writes the status row writes
\* 'success' exactly when the Outcome has found=true and 'failed' otherwise.
C11_TodoIsNotDone ==
    [][/\ (spc = "round_start" /\ spc' # "round_start")
              => \A k \in Keywords :
                     (k \in {queue'[i] : i \in 1..Len(queue')} \cup {wkw'[w] : w \in Workers})
                         <=> task_state[k] # "success"
       /\ \A w \in Workers :
              (wpc[w] = "persist" /\ wpc'[w] # "persist")
                  => \/ task_state' = task_state /\ result_store' = result_store
                     \/ task_state'[wkw[w]] = IF wres[w].found THEN "success" ELSE "failed"]_vars

\* C11 witness: a later round is under way whose todo holds a keyword with a
\* 'failed' row and leaves out a keyword with a 'success' row.
C11_Witness ==
    /\ InRound
    /\ \E k \in QueueSet : task_state[k] = "failed"
    /\ \E k \in Keywords \ QueueSet : task_state[k] = "success"
    /\ \A w \in Workers : wpc[w] = "idle"

\* C12: the scheduler stops only when the todo list is empty: whenever it has
\* stopped, every keyword of the list has status 'success'.
C12_StopsOnlyWhenAllDone ==
    Stopped => \A k \in Keywords : task_state[k] = "success"

\* C13: a round that ends with no progress while some keyword of the list is
\* not done is followed by the sleep, whatever rows the store held at start.
C13_NoProgressSleeps ==
    [][(/\ InRound /\ spc' \in {"sleep", "round_start"}
        /\ Cardinality(DoneKeywords) <= before_done
        /\ \E k \in Keywords : task_state[k] # "success")
           => spc' = "sleep"]_vars

\* C14: there is no ceiling on rounds: while the last persisted Outcome of
\* some keyword of the list has found=false, the scheduler has not stopped.
C14_FailingKeywordKeepsRunning ==
    (\E k \in Keywords : task_state[k] = "failed") => spc \notin {"done", "aborted"}

CeilDiv(n, d) == (n + d - 1) \div d
RoundEnds == InRound /\ spc' \in {"sleep", "round_start"}
LinesOf(k) == SelectSeq(out_log, LAMBDA line : line.keyword = k)

C16_StubRunEndsComplete ==
    Stopped =>
        /\ \A k \in Keywords :
               /\ task_state[k] = "success"
               /\ result_store[k] = [keyword |-> k, found |-> TRUE]
               /\ Len(LinesOf(k)) = 1
        /\ Len(out_log) = Cardinality(Keywords)

RowsWritten ==
    \/ task_state' # task_state
    \/ task_error' # task_error
    \/ result_store' # result_store
Last(seq) == seq[Len(seq)]
RoundTodo == {round.todo[i] : i \in 1..Len(round.todo)}

\* C17: every persist_result call that wrote the keyword's rows left the
\* row of that call in each table, touched no other keyword's row, and
\* appended one line, the call's public item, at the end of the log.
C17_RowsUpsertedLineAppended ==
    [][\A w \in Workers :
          (wpc[w] = "persist" /\ wpc'[w] # "persist" /\ RowsWritten)
              => /\ result_store' = [result_store EXCEPT ![wkw[w]] = PublicItem(wres[w])]
                 /\ \A k \in StoreKeywords \ {wkw[w]} : task_state'[k] = task_state[k]
                 /\ out_log' = Append(out_log, PublicItem(wres[w]))]_vars

\* C18: whenever no persist is in progress, every keyword with a result row
\* has that row's payload as its last line in the log, and its status row
\* is 'success' exactly when the payload has found=true.
C18_RowsMatchLastLine ==
    \A k \in StoreKeywords :
        result_store[k] # NoPayload
            => /\ LinesOf(k) # <<>>
               /\ Last(LinesOf(k)) = result_store[k]
               /\ task_state[k] = "success" <=> result_store[k].found

C20_LogLineCarriesError ==
    [][\A w \in Workers :
          (wpc[w] = "persist" /\ wpc'[w] # "persist" /\ wres[w].error # "" /\ out_log' # out_log)
              => /\ ~Last(out_log').found
                 /\ "error" \in DOMAIN Last(out_log')
                 /\ Last(out_log').error = wres[w].error]_vars

\* C20 amended: the log line of a persisted Outcome with found=false that an
\* error caused carries the keyword and found=false but not the error
\* description; the description is in the error column of the keyword's
\* status row, whose status is 'failed'.
C20_ErrorOnlyInStatusRow ==
    [][\A w \in Workers :
          (wpc[w] = "persist" /\ wpc'[w] # "persist" /\ wres[w].error # "" /\ out_log' # out_log)
              => /\ Last(out_log').keyword = wkw[w]
                 /\ ~Last(out_log').found
                 /\ DOMAIN Last(out_log') = {"keyword", "found"}
                 /\ task_state'[wkw[w]] = "failed"
                 /\ task_error'[wkw[w]] = wres[w].error]_vars

\* C20 witness: the last line of the log is the found=false line of a
\* keyword whose status row holds an error description.
C20_Witness ==
    /\ out_log # <<>>
    /\ ~Last(out_log).found
    /\ task_state[Last(out_log).keyword] = "failed"
    /\ task_error[Last(out_log).keyword] = "error"

\* C30: with an audit log path configured, every get_json call that ends,
\* whether it returns or raises, has appended exactly one record to the log.
C30_EveryCallLogged ==
    [][\A w \in Workers :
          (args.raw_log /\ cpc[w] = "flight" /\ cpc'[w] = "none")
              => raw_log' = raw_log + 1]_vars

ItemKey(item) == IF "uid" \in DOMAIN item THEN item.uid ELSE item.card
ReportingPages ==
    {p \in 1..Min(fetch.fetched, Len(fetch.pages)) :
        fetch.pages[p].data_ok /\ fetch.pages[p].total # None}

\* C22: for every parser and every sequence of pages, the list returned by
\* fetch_endpoint_items holds no two items with the same identity key.
C22_NoDuplicateKeys ==
    fetch.called =>
        \A i, j \in 1..Len(fetch.items) :
            i # j => ItemKey(fetch.items[i]) # ItemKey(fetch.items[j])

\* C23: the total returned by fetch_endpoint_items is the total of the
\* first fetched page that reports one, and null when no fetched page does.
C23_TotalOfFirstReportingPage ==
    fetch.called =>
        fetch.total =
            IF ReportingPages = {} THEN None
            ELSE fetch.pages[CHOOSE p \in ReportingPages : \A q \in ReportingPages : p <= q].total


\* ---- process_keyword ----
ProcReturned == proc.pc = "returned"
Accepted == ProcReturned /\ proc.out.ok
FailedIn(a) == SelectSeq(proc.tries, LAMBDA t : t.attempt = a)
TriedIn(a) ==
    [i \in 1..Len(FailedIn(a)) |-> FailedIn(a)[i].account] \o
    (IF Accepted /\ proc.attempt = a THEN <<proc.out.account>> ELSE <<>>)
IsPrefix(s, t) == Len(s) <= Len(t) /\ \A i \in 1..Len(s) : s[i] = t[i]
ExpectedOrder ==
    [i \in 1..(IF args.fallback_to_other_accounts /\ ~args.strict_account_isolation
               THEN NumAccounts ELSE 1) |-> ((proc.hash + i - 1) % NumAccounts) + 1]

\* C24: within every attempt of a process_keyword call the accounts are
\* tried in one order fixed by the keyword and the account list: the
\* rotation of the accounts starting at hash(keyword) mod n when fallback is
\* enabled and strict isolation is off, and the primary account alone
\* otherwise; a further attempt starts only after the whole order failed.
C24_AccountsTriedInRotation ==
    proc.pc # "off" =>
        \A a \in 1..Max(1, args.max_retries) :
            /\ IsPrefix(TriedIn(a), ExpectedOrder)
            /\ (a < proc.attempt => Len(FailedIn(a)) = Len(ExpectedOrder))
            /\ (proc.pc = "try" /\ a = proc.attempt =>
                    ActiveOrder(proc.hash)[proc.ci] = ExpectedOrder[Len(FailedIn(a)) + 1])
C24_Witness ==
    /\ Accepted
    /\ FallbackMode
    /\ proc.hash % NumAccounts = 1
    /\ proc.attempt = 2
    /\ Len(TriedIn(1)) = NumAccounts
    /\ Len(TriedIn(2)) = 2
C24_PrimaryOnlyWitness ==
    /\ ProcReturned /\ ~proc.out.ok
    /\ args.strict_account_isolation
    /\ Len(proc.tries) = 2


\* C25: with strict isolation off and fallback on, when every fetch through
\* the primary account fails and a fetch through a secondary account comes
\* back with data, process_keyword returns a successful Outcome whose account
\* is the one the data was fetched through, never an account all of whose
\* fetches failed.
C25_OutcomeNamesFetchingAccount ==
    /\ Accepted => /\ proc.out.account \in proc.fetched_ok
                   /\ proc.out.payload = proc.last.payload
                   /\ proc.out.error = ""
    /\ (proc.last.kind = "payload" /\ ~Rejected(proc.endpoints, proc.last.payload)) => Accepted
C25_Witness ==
    /\ Accepted
    /\ FallbackMode
    /\ ExpectedOrder[1] \notin proc.fetched_ok
    /\ \E i \in 1..Len(proc.tries) : proc.tries[i].account = ExpectedOrder[1]
    /\ proc.out.found
    /\ proc.out.account = ExpectedOrder[2]


\* C26: every Outcome process_keyword returns has found = true exactly when
\* the item list of at least one configured endpoint in it is non-empty.
C26_FoundIffSomeListNonEmpty ==
    ProcReturned =>
        (proc.out.found <=>
            \E f \in FieldsOf(proc.endpoints) \cap DOMAIN proc.out.payload :
                proc.out.payload[f] # <<>>)
C26_Witness ==
    /\ Accepted
    /\ proc.out.found
    /\ \E f \in FieldsOf(proc.endpoints) : proc.out.payload[f] = <<>>
C26_NotFoundWitness ==
    /\ Accepted
    /\ ~proc.out.found


AllEmpty(payload) == \A f \in FieldsOf(proc.endpoints) : payload[f] = <<>>
ContribRequired == "top_contributors" \in FieldsOf(proc.endpoints) /\ ~args.allow_empty_contrib

\* C27 (as stated): process_keyword returns an accepted Outcome only if the
\* output of at least one endpoint is non-empty.
C27_AcceptsOnlyNonEmpty ==
    Accepted => ~AllEmpty(proc.out.payload)

\* C27 (amended): an accepted Outcome has found = true only if the output of
\* at least one endpoint is non-empty; a result whose endpoint outputs are
\* all empty is accepted at once, with found = false, unless a contributors
\* endpoint is configured and allow_empty_contrib is off, in which case it
\* is not accepted.
C27_AllEmptyAcceptedAsNotFound ==
    /\ (Accepted /\ proc.out.found) => ~AllEmpty(proc.out.payload)
    /\ (proc.last.kind = "payload" /\ AllEmpty(proc.last.payload)) =>
           IF ContribRequired
           THEN ~Accepted
           ELSE Accepted /\ ~proc.out.found /\ proc.out.payload = proc.last.payload
C27_Witness ==
    /\ Accepted
    /\ AllEmpty(proc.out.payload)
    /\ ~proc.out.found
    /\ proc.tries = <<>>
    /\ proc.vi = 1 /\ proc.variants = 2
C27_RejectedWitness ==
    /\ proc.last.kind = "payload"
    /\ AllEmpty(proc.last.payload)
    /\ ContribRequired
    /\ proc.tries # <<>>


\* C28: with a contributors endpoint configured and allow_empty_contrib off,
\* no accepted Outcome has an empty contributors list: a result with an empty
\* contributors list moves on to the next variant, and on the last variant
\* fails the account try with "contributors empty", whatever the other
\* endpoints returned.
C28_NoAcceptedEmptyContributors ==
    ContribRequired =>
        /\ Accepted => proc.out.payload["top_contributors"] # <<>>
        /\ (proc.last.kind = "payload" /\ proc.last.payload["top_contributors"] = <<>>) =>
               /\ ~ProcReturned \/ ~proc.out.ok
               /\ \/ proc.pc = "try" /\ proc.vi > 1
                  \/ /\ proc.tries # <<>>
                     /\ proc.tries[Len(proc.tries)].error = ContribEmpty
C28_Witness ==
    /\ ContribRequired
    /\ proc.last.kind = "payload"
    /\ proc.last.payload["top_contributors"] = <<>>
    /\ proc.last.payload["publish_media_list"] # <<>>
    /\ proc.variants = 2
    /\ proc.tries # <<>>
    /\ proc.tries[Len(proc.tries)].error = ContribEmpty
C28_NextVariantWitness ==
    /\ ContribRequired
    /\ proc.last.kind = "payload"
    /\ proc.last.payload["publish_media_list"] # <<>>
    /\ proc.pc = "try" /\ proc.vi = 2


AllTries ==
    [i \in 1..(Max(0, args.max_retries) * Len(ExpectedOrder)) |->
        [attempt |-> ((i - 1) \div Len(ExpectedOrder)) + 1,
         account |-> ExpectedOrder[((i - 1) % Len(ExpectedOrder)) + 1]]]
TriesMade ==
    [i \in 1..Len(proc.tries) |->
        [attempt |-> proc.tries[i].attempt, account |-> proc.tries[i].account]]

\* C29: a process_keyword call none of whose account tries is accepted makes
\* max_retries attempts, each over the whole active order, and then returns
\* an Outcome with found = false, success flag false, empty lists, the error
\* of the last failed try and the account of that try; a call ends in no
\* other way than by returning an Outcome.
C29_ExhaustedReturnsFailure ==
    /\ (ProcReturned /\ ~proc.out.ok) =>
           /\ TriesMade = AllTries
           /\ ~proc.out.found
           /\ \A f \in DOMAIN proc.out.payload : proc.out.payload[f] = <<>>
           /\ IF proc.tries = <<>>
              THEN proc.out.error = "unknown" /\ proc.out.account = None
              ELSE /\ proc.out.error = proc.tries[Len(proc.tries)].error
                   /\ proc.out.account = proc.tries[Len(proc.tries)].account
    /\ proc.pc = "exhausted" => TriesMade = AllTries
    /\ (proc.pc = "try" \/ Accepted) => Len(proc.tries) < Len(AllTries)
C29_Witness ==
    /\ ProcReturned /\ ~proc.out.ok
    /\ FallbackMode
    /\ args.max_retries = 2
    /\ Len(proc.tries) = 2 * NumAccounts
    /\ proc.tries[1].error # proc.out.error
    /\ proc.out.error = ContribEmpty


\* ---- Instances on one state database ----
\* C21: while one instance has the state database open and is running, a
\* second instance started on the same database fails at startup with the
\* database-busy error: it never gets past init_db, takes no keyword and
\* writes no row.
C21_SecondInstanceFailsFast ==
    \A i \in Instances : \A j \in Others(i) :
        (inst.pc[i] = "running" /\ inst.late[j]) =>
            /\ inst.pc[j] \in {"init_db", "failed"}
            /\ inst.dispatched[j] = {}
            /\ \A k \in InstKeywords : \A n \in 1..Len(inst.rows[k]) : inst.rows[k][n] # j


\* ---- process_keyword: variants ----
ProcStep == proc.pc = "try" /\ proc' # proc
SamePlace == proc'.attempt = proc.attempt /\ proc'.ci = proc.ci

\* C32: within an account try, a step whose endpoint fetch fails moves to
\* the next variant on the same account when one remains, and on the last
\* variant ends the try with that failure, after which the next account of
\* the order or the next attempt is tried; the account or the attempt
\* changes only from the last variant.
C32_NextVariantBeforeNextAccount ==
    [][/\ (ProcStep /\ proc'.last.kind = "raise" /\ proc.vi < proc.variants) =>
            /\ proc'.pc = "try" /\ SamePlace
            /\ proc'.vi = proc.vi + 1
            /\ proc'.tries = proc.tries
       /\ (ProcStep /\ proc'.last.kind = "raise" /\ proc.vi = proc.variants) =>
            /\ proc'.tries = Append(proc.tries,
                                    [attempt |-> proc.attempt,
                                     account |-> ExpectedOrder[proc.ci],
                                     error |-> proc'.last.error])
            /\ proc'.pc \in {"try", "exhausted"}
            /\ proc'.pc = "try" =>
                   /\ proc'.vi = 1
                   /\ IF proc.ci < Len(ExpectedOrder)
                      THEN proc'.ci = proc.ci + 1 /\ proc'.attempt = proc.attempt
                      ELSE proc'.ci = 1 /\ proc'.attempt = proc.attempt + 1
       /\ (ProcStep /\ ~SamePlace) => proc.vi = proc.variants
      ]_vars
C32_Witness ==
    /\ proc.pc = "try"
    /\ proc.variants = 2 /\ proc.vi = 2
    /\ proc.last.kind = "raise"
    /\ proc.ci = 2
    /\ Len(proc.tries) = 1
    /\ proc.tries[1].error \in FetchErrors


\* C39: every accepted Outcome is built from one account and one query
\* variant: each endpoint's item list in it was fetched through the account
\* the Outcome names, with the variant and in the attempt that returned it,
\* and none is left from another variant, account or attempt.
C39_OutcomeFromOneAccountAndVariant ==
    Accepted =>
        /\ DOMAIN proc.endpoint_payload.via = FieldsOf(proc.endpoints)
        /\ \A f \in FieldsOf(proc.endpoints) :
               /\ proc.endpoint_payload.via[f] = Via(proc.attempt, proc.out.account, proc.vi)
               /\ proc.out.payload[f] = proc.endpoint_payload.items[f]
        /\ \A f \in DOMAIN proc.out.payload \ FieldsOf(proc.endpoints) : proc.out.payload[f] = <<>>
        /\ proc.out.account = ExpectedOrder[proc.ci]
C39_Witness ==
    /\ Accepted
    /\ Len(proc.endpoints) = 2
    /\ proc.vi = 2 /\ proc.ci = 2 /\ proc.attempt = 2
    /\ proc.out.payload["publish_media_list"] = <<>>
    /\ proc.out.payload["top_contributors"] # <<>>


\* ---- fetch_endpoint_items: the pages requested ----
PageKeys(p) ==
    IF p > Len(fetch.pages) \/ ~fetch.pages[p].data_ok THEN {}
    ELSE {fetch.pages[p].cards[i] : i \in 1..Len(fetch.pages[p].cards)} \
         (IF fetch.parser = "raw_cards" THEN {} ELSE {None})
NewKeys(p) == PageKeys(p) \ UNION {PageKeys(q) : q \in 1..(p - 1)}

\* C33: fetch_endpoint_items requests pages 1, 2, ... in order, at most
\* max_pages of them, and none after the first page that contributes no
\* item with a key unseen so far.
C33_StopsAfterPageWithNothingNew ==
    fetch.called =>
        /\ fetch.fetched \in 1..fetch.max_pages
        /\ \A p \in 1..(fetch.fetched - 1) : NewKeys(p) # {}


\* ---- load_keywords ----
FirstRow(k) == CHOOSE n \in 1..Len(load.cells) :
                   /\ Strip(load.cells[n]) = k
                   /\ \A m \in 1..(n - 1) : Strip(load.cells[m]) # k

\* C31: for every list of input rows the list load_keywords returns has no
\* duplicates and no empty string, and holds keywords of the input in the
\* order of their first occurrence; without shard and limit it holds every
\* keyword of the input.
C31_NoDuplicatesFirstOccurrenceOrder ==
    load.called =>
        /\ \A i, j \in 1..Len(load.out) : i # j => load.out[i] # load.out[j]
        /\ \A i \in 1..Len(load.out) :
               /\ load.out[i] # ""
               /\ \E n \in 1..Len(load.cells) : Strip(load.cells[n]) = load.out[i]
        /\ \A i, j \in 1..Len(load.out) :
               i < j => FirstRow(load.out[i]) < FirstRow(load.out[j])
        /\ (load.shard_index < 0 /\ load.limit = 0) =>
               \A n \in 1..Len(load.cells) :
                   Strip(load.cells[n]) # "" =>
                       \E i \in 1..Len(load.out) : load.out[i] = Strip(load.cells[n])
C31_Witness ==
    /\ load.called
    /\ Len(load.cells) = 3
    /\ load.cells[1] = "b" /\ load.cells[2] = "a " /\ load.cells[3] = "b"
    /\ load.out = <<"b", "a">>


\* ---- The gate: refresh failures, inspection errors, locks ----
Polls(w) == SupportsVerifyPoll(gacc[w])
TagOf(w) == ResolveAccountRefreshSettings(gacc[w])[5]

\* C34: in the gate with state polling a failed refresh is not fatal: the
\* gate stays in REFRESHING and refreshes again, and it is in POLLING or
\* cleared only with its last refresh succeeded; a step that enters POLLING
\* from REFRESHING is a refresh that succeeded.
C34_FailedRefreshRefreshesAgain ==
    [][\A w \in Workers :
          Polls(w) =>
              /\ grefreshed'[w] = "failed" => gst'[w] = "refreshing"
              /\ gst'[w] \in {"polling", "cleared"} => grefreshed'[w] = "ok"
              /\ (gst[w] = "refreshing" /\ gst'[w] = "polling") =>
                     /\ grefreshed'[w] = "ok"
                     /\ gcycle'[w] = Min(MaxCycles, gcycle[w] + 1)]_vars
C34_Witness ==
    \E w \in Workers :
        /\ Polls(w)
        /\ grefreshed[w] = "failed"
        /\ gst[w] = "refreshing"
        /\ gcycle[w] = 2


\* C35: a poll that fails because JavaScript from Apple Events is off aborts
\* the cycle to REFRESHING when the account is bound to a window tag, the
\* location not being asked; without a tag the location is asked, and one
\* that does not match the challenge pattern clears the gate while one that
\* matches keeps the cycle going. Every other failure of the state check or
\* of the location query aborts the cycle to REFRESHING and never clears.
C35_ScriptingOffDegradesToUrl ==
    \A w \in Workers :
        /\ (gobs[w].via = "state" /\ JsDisabled(gobs[w].text)) =>
               TagOf(w) # "" /\ gst[w] = "refreshing"
        /\ (gobs[w].via = "state" /\ gobs[w].text = "osascript failed") =>
               gst[w] = "refreshing"
        /\ gobs[w].via = "url" =>
               /\ TagOf(w) = ""
               /\ (gobs[w].text \in Locations /\ ~ContainsCaptchaShow(gobs[w].text)) =>
                      gst[w] = "cleared"
               /\ ContainsCaptchaShow(gobs[w].text) =>
                      gst[w] = IF gobs[w].at >= CycleTimeout THEN "refreshing" ELSE "polling"
               /\ gobs[w].text = "osascript failed" => gst[w] = "refreshing"
C35_Witness ==
    \E w \in Workers :
        /\ gobs[w].via = "state" /\ JsDisabled(gobs[w].text)
        /\ TagOf(w) # ""
        /\ gst[w] = "refreshing"
C35_UrlWitness ==
    \E w \in Workers :
        /\ gobs[w].via = "url"
        /\ gobs[w].text \in Locations /\ ~ContainsCaptchaShow(gobs[w].text)
        /\ gst[w] = "cleared"

\* C37: in URL fallback the gate is cleared only by the location of a surface
\* that was found and does not match the challenge pattern; an answer of the
\* location query that reports no window or no matching tab never clears it.
C37_NoSurfaceNeverClears ==
    \A w \in Workers :
        (gobs[w].via = "url" /\ gobs[w].text \notin Locations) => gst[w] # "cleared"

\* C40: gate entries that resolve to the same refresh settings hold the same
\* lock key, entries without an account included, and no two of them are in
\* the refresh/poll cycle at once.
C40_SameSettingsSameLock ==
    \A w1, w2 \in Workers :
        (w1 # w2 /\ gst[w1] # "out" /\ gst[w2] # "out" /\ GateTuple(w1) = GateTuple(w2)) =>
            /\ glock[w1] = glock[w2]
            /\ glock[w1] \in DOMAIN gate_locks
            /\ ~(Driving(w1) /\ Driving(w2))
C40_Witness ==
    \E w1, w2 \in Workers :
        /\ gacc[w1] = None /\ gacc[w2] = None
        /\ Driving(w1) /\ gst[w2] = "wait"
        /\ glock[w1] = "global" /\ glock[w2] = "global"


\* ---- The scheduler: the done set ----
\* C36: within a run the set of done keywords only grows: a keyword whose
\* status is 'success' keeps that status and is not dispatched again, in any
\* round, by any worker, by any gate retry.
C36_DoneSetOnlyGrows ==
    [][\A k \in StoreKeywords :
          task_state[k] = "success" =>
              /\ task_state'[k] = "success"
              /\ \A w \in Workers : wkw'[w] = k => wkw[w] = k
              /\ round'.taken[k] <= round.taken[k]]_vars
C36_Witness ==
    \E k, j \in Keywords : \E w \in Workers :
        /\ task_state[k] = "success" /\ task_state[j] = "failed"
        /\ \E n \in 1..Len(out_log) : out_log[n].keyword = k /\ n > 1
        /\ wkw[w] = j /\ wpc[w] = "persist" /\ ~wres[w].found
        /\ \A n \in 1..Len(round.todo) : round.todo[n] # k


\* C38: a failing request never blocks an account or a gate. Every caller
\* that waits for an account's request lock eventually issues its request,
\* whatever the requests before it answered (a transport error, a risk
\* block and an api error included), and a worker that is first in a gate
\* lock's queue behind a driver whose gate is about to return eventually
\* enters the gate.
QueuedCaller(w) == w \in Workers /\ cpc[w] = "wait_lock"
IssuesRequest(w) == w \in Workers /\ cpc[w] = "flight"
BehindReturningGate(w) ==
    /\ w \in Workers
    /\ gst[w] = "wait"
    /\ gate_locks[glock[w]].waiters # <<>>
    /\ Head(gate_locks[glock[w]].waiters) = w
    /\ \E d \in Workers : gate_locks[glock[w]].holder = d /\ gst[d] = "cleared"
EntersGate(w) == w \in Workers /\ gst[w] = "refreshing"
C38_FailingRequestNeverBlocks ==
    \A w \in AccountIds :
        /\ QueuedCaller(w) ~> IssuesRequest(w)
        /\ BehindReturningGate(w) ~> EntersGate(w)
C38_Witness ==
    \E w, d \in Workers :
        /\ QueuedCaller(w)
        /\ cl_lock[ctarget[w]].holder = d
        /\ cpc[d] = "flight"
C38_GateWitness == \E w \in Workers : BehindReturningGate(w)

====
